---- MODULE Spec2Model ----
\* A model of the semantic core of the build-description interpreter
\* (mesonbuild/interpreter/interpreter.py): the subproject composition engine,
\* the dependency cache and resolver, the target registry, the sandbox path
\* validator and the version check.
EXTENDS Integers, Sequences, FiniteSets, TLC

\* ---------------------------------------------------------------- bounds

\* Number of statements (calls, end-of-file, raised errors) one run evaluates.
MaxSteps == 5

\* ------------------------------------------------------------ value domains

\* Subproject names the build files refer to.
SubNames == {"A", "B"}

\* Dependency names the build files ask for ("" is the anonymous dependency).
DepNames == {"", "z"}

\* MachineChoice
Machines == {"host", "build"}

\* Variable names a project binds dependency objects to.
VarNames == {"v", "w"}

\* ----------------------------------------------------------------- versions

\* The components of a version string, as mesonlib.Version splits them; the
\* alphabetic word 'undefined' sorts below every number.
VersionKey(v) ==
    CASE v = "1.0" -> <<1, 0>>
      [] v = "1.2.0" -> <<1, 2, 0>>
      [] v = "1.3" -> <<1, 3>>
      [] v = "1.4.0" -> <<1, 4, 0>>
      [] v = "2.0" -> <<2, 0>>
      [] OTHER -> <<-1>>

\* Three-way comparison of two component sequences: -1, 0 or 1.
RECURSIVE CmpKey(_, _)
CmpKey(a, b) ==
    IF Len(a) = 0 /\ Len(b) = 0 THEN 0
    ELSE IF Len(a) = 0 THEN -1
    ELSE IF Len(b) = 0 THEN 1
    ELSE IF Head(a) < Head(b) THEN -1
    ELSE IF Head(a) > Head(b) THEN 1
    ELSE CmpKey(Tail(a), Tail(b))

\* A version constraint such as '>=1.3': its operator and its version.
Constraint(c) ==
    CASE c = ">=1.3" -> [op |-> ">=", ver |-> "1.3"]
      [] c = ">=1.0" -> [op |-> ">=", ver |-> "1.0"]
      [] c = "<1.4.0" -> [op |-> "<", ver |-> "1.4.0"]
      [] c = "==1.2.0" -> [op |-> "==", ver |-> "1.2.0"]
      [] OTHER -> [op |-> "==", ver |-> c]

\* mesonlib.version_compare: one constraint against one found version.
version_compare(found, c) ==
    LET k == CmpKey(VersionKey(found), VersionKey(Constraint(c).ver))
        op == Constraint(c).op
    IN  CASE op = ">=" -> k >= 0
          [] op = "<" -> k < 0
          [] op = "==" -> k = 0
          [] OTHER -> FALSE

\* mesonlib.version_compare_many(found, wanted)[0]: every constraint holds.
version_compare_many(found, wanted) ==
    \A i \in 1..Len(wanted) : version_compare(found, wanted[i])

\* Interpreter.check_version with the 'undefined' test left out.
check_version_no_sentinel(wanted, found) ==
    IF Len(wanted) = 0 THEN TRUE
    ELSE IF ~version_compare_many(found, wanted) THEN FALSE
    ELSE TRUE

\* Interpreter.check_version
check_version(wanted, found) ==
    IF Len(wanted) = 0 THEN TRUE
    ELSE IF found = "undefined" \/ ~version_compare_many(found, wanted) THEN FALSE
    ELSE TRUE


\* --------------------------------------------------------------- values

\* Keyword values of 'required': true, false, or a disabled feature option
\* (an enabled feature behaves as true, an 'auto' feature as false).
ReqKinds == {"true", "false", "disabled"}

\* ProjectVersions a nested project may declare in project().
ProjectVersions == {"1.2.0"}

\* Python's None where a dependency object is expected.
NoDep == [id |-> "none", found |-> FALSE, version |-> "undefined", serial |-> 0]

\* NotFoundDependency(self.environment)
NotFoundDependency == [id |-> "notfound", found |-> FALSE, version |-> "undefined", serial |-> 0]

\* A variable bound to something that is not a dependency object.
NonDepValue == [id |-> "string", found |-> FALSE, version |-> "undefined", serial |-> 0]

\* The dependency object a project creates with declare_dependency().
DeclaredDep(proj, ver, n) ==
    [id |-> "declared:" \o proj, found |-> TRUE, version |-> ver, serial |-> n]

\* The object the external probe returns when it finds the dependency.
ExternalDep(ver, n) == [id |-> "system", found |-> TRUE, version |-> ver, serial |-> n]

\* No exception in flight.
NoExc == [kind |-> "none", msg |-> ""]

\* The variable bindings of a project that has bound nothing.
NoVars == [x \in VarNames |-> NoDep]

\* Where a subproject handle is expected and there is none.
NoHandle ==
    [found |-> FALSE, disabled_feature |-> FALSE, exception |-> NoExc,
     vars |-> NoVars, version |-> "undefined", warnings |-> 0, targets |-> <<>>,
     serial |-> 0]

\* SubprojectHolder(None, subdir, disabled_feature=..., exception=...)
DisabledHolder(feature, e, n) ==
    [found |-> FALSE, disabled_feature |-> feature, exception |-> e,
     vars |-> NoVars, version |-> "undefined", warnings |-> 0, targets |-> <<>>,
     serial |-> n]

\* SubprojectHolder(subi, subdir, warnings=...)
ReadyHolder(subi, n) ==
    [found |-> TRUE, disabled_feature |-> FALSE, exception |-> NoExc,
     vars |-> subi.vars, version |-> subi.project_version,
     warnings |-> subi.subi_warnings, targets |-> subi.targets, serial |-> n]

\* A dict with one more (or one replaced) entry: d[k] = v.
Put(d, k, v) == [x \in (DOMAIN d) \cup {k} |-> IF x = k THEN v ELSE d[x]]

\* The empty dict.
EmptyDict == [x \in {} |-> 0]

\* ' => '.join(fullstack) and ':'.join(...)
RECURSIVE Join(_, _)
Join(s, sep) ==
    IF Len(s) = 0 THEN ""
    ELSE IF Len(s) = 1 THEN s[1]
    ELSE s[1] \o sep \o Join(Tail(s), sep)

\* x in list
InList(x, s) == \E i \in 1..Len(s) : s[i] = x

\* The keyword arguments of a call that takes none of them.
NoKw ==
    [required |-> "true", version |-> <<>>, native |-> "host", modules |-> "",
     fallback |-> <<>>, allow_fallback |-> "none"]

\* The call a nested interpreter was created for: the root has none.
NoPend ==
    [kind |-> "root", required |-> FALSE, version |-> <<>>, dname |-> "",
     kw |-> NoKw, probed |-> FALSE, args |-> <<>>, not_found_message |-> ""]

\* ---------------------------------------------------------------- state

VARIABLES
    frames,                 \* the interpreters on the call stack, root first
    subprojects,            \* Interpreter.subprojects, shared by every interpreter
    dependency_overrides,   \* build.dependency_overrides[for_machine][identifier]
    deps,                   \* coredata.deps[for_machine][identifier]
    wrap_mode,              \* coredata option wrap_mode
    log_warnings_counter,   \* mlog.log_warnings_counter
    force_fallback_for,     \* coredata option force_fallback_for
    global_args,            \* build.global_args: the arguments of every project
    project_args,           \* build.projects_args[subproject]
    target_guids,           \* coredata.target_guids[identifier]
    exc,                    \* the exception being propagated
    phase,                  \* "run", "done" or "aborted"
    last,                   \* the outcome of the call that completed last
    evals,                  \* per subproject name: nested evaluations started
    probes,                 \* external probes invoked so far
    provided,               \* per (machine, identifier): what a fallback provided
    steps,                  \* statements evaluated so far
    io                      \* input and result of the pure functions

vars ==
    <<frames, subprojects, dependency_overrides, deps, wrap_mode, log_warnings_counter,
      force_fallback_for, global_args, project_args, target_guids, exc, phase,
      last, evals, probes, provided, steps, io>>

\* The directory of a project below the source root, as path components:
\* No program: None, or the NonExistingExternalProgram of notfound_program.
NoProgram == [found |-> FALSE, name |-> "", version |-> "undefined", serial |-> 0]

\* No find_program call has completed in the interpreter.
NoProgramCall == [args |-> <<>>, res |-> "none", prog |-> NoProgram, seq |-> 0]

\* '' for the top-level project, subprojects/<name> for a subproject.
project_subdir(subproject) ==
    IF subproject = "" THEN <<>> ELSE <<"subprojects", subproject>>

\* Interpreter.__init__: the state of a freshly constructed interpreter. The
\* build file of the project is on the list of build definition files and
\* not among the processed build files; 'subdir_calls' are the func_subdir
\* calls under way, 'evaluated' the directories of the build files whose
\* evaluation has started, 'own_warnings' the number of warnings the build
\* files of the project have emitted and 'program' the last find_program call
\* the interpreter has completed; 'find_overrides' and 'searched_programs'
\* are those of its build, 'looked_up' are the names of the find_program
\* calls that have returned a program so far in the run; 'messages' counts
\* the messages the interpreter has logged and 'dependency_call' is the
\* not_found_message of the last dependency() call it has completed.
NewInterpreter(subproject, stack, targets, pv, pend) ==
    [name |-> subproject,
     subproject_stack |-> stack,
     targets |-> targets,
     tests |-> <<>>,
     find_overrides |-> EmptyDict,
     searched_programs |-> {},
     program |-> NoProgramCall,
     looked_up |-> {},
     messages |-> 0,
     dependency_call |-> [not_found_message |-> ""],
     vars |-> NoVars,
     project_version |-> pv,
     global_args_frozen |-> FALSE,
     project_args_frozen |-> FALSE,
     subdir |-> project_subdir(subproject),
     processed_buildfiles |-> {},
     build_def_files |-> <<Append(project_subdir(subproject), "meson.build")>>,
     subdir_calls |-> <<>>,
     current_warnings_counter |-> 0,
     subi_warnings |-> 0,
     own_warnings |-> 0,
     evaluated |-> <<project_subdir(subproject)>>,
     pend |-> pend]

\* The record of a completed call.
NoLast ==
    [op |-> "none", proj |-> "", stack |-> <<>>, arg |-> "", kind |-> "", res |-> "ret",
     dep |-> NoDep,
     handle |-> NoHandle, exc |-> NoExc, kw |-> NoKw, probed |-> FALSE,
     entered |-> FALSE, seq |-> 0]

\* No call of a pure function is under way.
NoIO == [op |-> "none"]

\* Interpreter.__init__ of the root project: the state before its first
\* statement, over the coredata dependency cache 'cache' and the coredata
\* options wrap_mode 'wm' and force_fallback_for 'ff'; 'in' is the call of a
\* pure function the run is about.
InitWith(cache, in, wm, ff) ==
    /\ frames = <<NewInterpreter("", <<>>, EmptyDict, "1.0", NoPend)>>
    /\ subprojects = EmptyDict
    /\ dependency_overrides = [m \in Machines |-> EmptyDict]
    /\ deps = cache
    /\ wrap_mode = wm
    /\ log_warnings_counter = 0
    /\ force_fallback_for = ff
    /\ global_args = <<>>
    /\ project_args = EmptyDict
    /\ target_guids = EmptyDict
    /\ exc = NoExc
    /\ phase = "run"
    /\ last = NoLast
    /\ evals = [s \in SubNames |-> 0]
    /\ probes = 0
    /\ provided = EmptyDict
    /\ steps = 0
    /\ io = in

\* The state before the first statement under the default options.
InitRun(cache, in) == InitWith(cache, in, "default", {})

\* A first configuration: nothing is cached.
Init == InitRun([m \in Machines |-> EmptyDict], NoIO)

\* The interpreter that is evaluating statements.
Self == frames[Len(frames)]

\* A statement can be evaluated.
Running == phase = "run" /\ exc = NoExc /\ steps < MaxSteps

\* ------------------------------------------------------------ subprojects

\* The result of a call that returned a subproject handle.
SubRet(h, subs) == [tag |-> "ret", handle |-> h, subprojects |-> subs, exc |-> NoExc]

\* The result of a call that raised.
SubRaise(kind, msg, subs) ==
    [tag |-> "raise", handle |-> NoHandle, subprojects |-> subs,
     exc |-> [kind |-> kind, msg |-> msg]]

\* The result of a call that has to evaluate the nested project first.
SubEnter(subs) == [tag |-> "enter", handle |-> NoHandle, subprojects |-> subs, exc |-> NoExc]

\* extract_required_kwarg: (disabled, required) of a 'required' keyword value.
extract_disabled(req) == req = "disabled"
extract_required(req) == req = "true"

\* A 'required' keyword that is never taken to be true.
Truthy_never(req) == FALSE

\* kwargs.get('required', True), read after extract_required_kwarg.
Truthy(req) == req = "true"

\* A name test that finds no leading period.
StartsWithPeriod_never(n) == FALSE

\* Name checks of do_subproject, on the names the build files use.
StartsWithPeriod(n) == n \in {".", ".hidden", "../up"}

\* '..' in subp_name
HasDotDot(n) == n \in {"../up", "a/../b"}

\* os.path.isabs(subp_name)
IsAbs(n) == n \in {"/abs"}

\* A disabled_subproject that returns the handle without storing it.
disabled_subproject_unstored(subs, subp_name, feature, e, n) ==
    SubRet(DisabledHolder(feature, e, n), subs)

\* Interpreter.disabled_subproject: the handle it stores and returns.
disabled_subproject(subs, subp_name, feature, e, n) ==
    SubRet(DisabledHolder(feature, e, n),
           Put(subs, subp_name, DisabledHolder(feature, e, n)))

\* A cycle error that names the requested subproject only.
CycleErrorShort(stack, subp_name, subs) ==
    SubRaise("InvalidCode",
             "Recursive include of subprojects: " \o subp_name \o ".",
             subs)

\* The cycle error of do_subproject.
CycleError(stack, subp_name, subs) ==
    SubRaise("InvalidCode",
             "Recursive include of subprojects: "
                 \o Join(Append(stack, subp_name), " => ") \o ".",
             subs)

\* A cache lookup that returns the stored handle to every request.
cached_subproject_lenient(subs, subp_name, req) ==
    SubRet(subs[subp_name], subs)

\* The cache lookup of do_subproject for a name that has a stored handle.
cached_subproject(subs, subp_name, req) ==
    IF extract_required(req) /\ ~subs[subp_name].found
    THEN SubRaise("InterpreterException", "Subproject required but not found.", subs)
    ELSE SubRet(subs[subp_name], subs)

\* Interpreter.do_subproject up to the nested evaluation: what the call does
\* for the interpreter 'self' when the source resolver answers 'resolves'.
do_subproject(self, subs, subp_name, req, resolves, n) ==
    IF extract_disabled(req)
    THEN disabled_subproject(subs, subp_name, TRUE, NoExc, n)
    ELSE IF subp_name = ""
    THEN SubRaise("InterpreterException", "Subproject name must not be empty.", subs)
    ELSE IF StartsWithPeriod(subp_name)
    THEN SubRaise("InterpreterException", "Subproject name must not start with a period.", subs)
    ELSE IF HasDotDot(subp_name)
    THEN SubRaise("InterpreterException", "Subproject name must not contain a \"..\" path segment.", subs)
    ELSE IF IsAbs(subp_name)
    THEN SubRaise("InterpreterException", "Subproject name must not be an absolute path.", subs)
    ELSE IF InList(subp_name, self.subproject_stack)
    THEN CycleError(self.subproject_stack, subp_name, subs)
    ELSE IF subp_name \in DOMAIN subs
    THEN cached_subproject(subs, subp_name, req)
    ELSE IF ~resolves
    THEN IF ~extract_required(req)
         THEN disabled_subproject(subs, subp_name, FALSE,
                                  [kind |-> "WrapException", msg |-> "resolve"], n)
         ELSE SubRaise("WrapException", "resolve", subs)
    ELSE SubEnter(subs)

\* A nested interpreter that inherits the stack of its invoker unextended.
NestedInterpreter_same_stack(self, subp_name, pv, pend) ==
    NewInterpreter(subp_name, self.subproject_stack, self.targets, pv, pend)

\* The nested interpreter _do_subproject_meson constructs, over a copy of the
\* invoker's build: its registry and its test list.
NestedInterpreter(self, subp_name, pv, pend) ==
    [NewInterpreter(subp_name, Append(self.subproject_stack, subp_name),
                    self.targets, pv, pend)
         EXCEPT !.tests = self.tests,
                !.find_overrides = self.find_overrides,
                !.searched_programs = self.searched_programs,
                !.looked_up = self.looked_up]

\* The frames after do_subproject has frozen the global arguments of the
\* invoker and entered the nested interpreter.
EnterFrames(subp_name, pv, pend) ==
    Append([frames EXCEPT ![Len(frames)].global_args_frozen = TRUE],
           [NestedInterpreter(Self, subp_name, pv, pend)
                EXCEPT !.current_warnings_counter = log_warnings_counter])

\* A handler that treats invalid code like every other error.
subproject_failed_catch_all(subs, subp_name, required, e, n) ==
    IF ~required
    THEN disabled_subproject(subs, subp_name, FALSE, e, n)
    ELSE [tag |-> "raise", handle |-> NoHandle, subprojects |-> subs, exc |-> e]

\* A handler that lets every exception of the nested evaluation through.
subproject_failed_reraise(subs, subp_name, required, e, n) ==
    [tag |-> "raise", handle |-> NoHandle, subprojects |-> subs, exc |-> e]

\* The exception handler of do_subproject around the nested evaluation.
subproject_failed(subs, subp_name, required, e, n) ==
    IF e.kind = "InvalidCode"
    THEN [tag |-> "raise", handle |-> NoHandle, subprojects |-> subs, exc |-> e]
    ELSE IF ~required
    THEN disabled_subproject(subs, subp_name, FALSE, e, n)
    ELSE [tag |-> "raise", handle |-> NoHandle, subprojects |-> subs, exc |-> e]

\* _do_subproject_meson after subi.run() returned: the version check, then
\* the handle stored for the subproject (the merge of the build is MergeBuild).
subproject_finished(subs, subi, n) ==
    IF Len(subi.pend.version) > 0
       /\ (subi.project_version = "undefined"
           \/ ~version_compare_many(subi.project_version, subi.pend.version))
    THEN subproject_failed(subs, subi.name, subi.pend.required,
                           [kind |-> "InterpreterException", msg |-> "version"], n)
    ELSE SubRet(ReadyHolder(subi, n), Put(subs, subi.name, ReadyHolder(subi, n)))

\* A merge that leaves the registry of the invoker as it was.
MergeBuild_none(self, subi) == self

\* build.merge(subi.build): the invoker takes over the nested build's
\* registry, test list, program overrides and recorded program lookups.
MergeBuild(self, subi) ==
    [self EXCEPT !.targets = subi.targets, !.tests = subi.tests,
                 !.find_overrides = subi.find_overrides,
                 !.searched_programs = subi.searched_programs]

\* The elements of a list.
Range(seq) == {seq[i] : i \in 1..Len(seq)}

\* list(set): the elements of the set in an order of the implementation.
RECURSIVE ListOfSet(_)
ListOfSet(S) ==
    IF S = {} THEN <<>>
    ELSE LET x == CHOOSE y \in S : TRUE
         IN  <<x>> \o ListOfSet(S \ {x})

\* An invoker that keeps its own list of build definition files.
merge_build_def_files_none(self, subi) == self

\* _do_subproject_meson: the invoker's list of build definition files
\* becomes list(set(self.build_def_files + subi.build_def_files)).
merge_build_def_files(self, subi) ==
    [self EXCEPT !.build_def_files =
         ListOfSet(Range(self.build_def_files) \cup Range(subi.build_def_files))]

\* ----------------------------------------------------------- dependencies

\* Interpreter.machine_from_native_kwarg
machine_from_native_kwarg(kw) == kw.native

\* dependencies.get_dep_identifier: the name and the keywords that select an
\* implementation (modules); version, native, required and fallback are left out.
get_dep_identifier(name, kw) == <<name, kw.modules>>

\* Interpreter.get_subproject: whether a found handle is cached for the name.
get_subproject(subs, subp_name) == subp_name \in DOMAIN subs /\ subs[subp_name].found

\* Interpreter.get_subproject_infos: (subp_name, varname), "" for no variable.
fallback_subp(fallback) == fallback[1]
fallback_var(fallback) == IF Len(fallback) = 1 THEN "" ELSE fallback[2]

\* A lookup that hands out an override whatever version is requested.
find_cached_dep_unversioned(ovr, cache, name, kw) ==
    LET m == machine_from_native_kwarg(kw)
        identifier == get_dep_identifier(name, kw)
    IN  IF identifier \in DOMAIN ovr[m]
        THEN ovr[m][identifier].dep
        ELSE IF identifier \in DOMAIN cache[m]
        THEN IF ~check_version(kw.version, cache[m][identifier].version)
             THEN NoDep
             ELSE cache[m][identifier]
        ELSE NoDep

\* _find_cached_dep that asks the implicit cache before the override table.
find_cached_dep_cache_first(ovr, cache, name, kw) ==
    LET m == machine_from_native_kwarg(kw)
        identifier == get_dep_identifier(name, kw)
    IN  IF identifier \in DOMAIN cache[m]
        THEN IF ~check_version(kw.version, cache[m][identifier].version)
             THEN NoDep
             ELSE cache[m][identifier]
        ELSE IF identifier \in DOMAIN ovr[m]
        THEN IF ~ovr[m][identifier].dep.found
             THEN ovr[m][identifier].dep
             ELSE IF ~check_version(kw.version, ovr[m][identifier].dep.version)
             THEN NotFoundDependency
             ELSE ovr[m][identifier].dep
        ELSE NoDep

\* Interpreter._find_cached_dep: the cached dependency, NoDep for None.
find_cached_dep(ovr, cache, name, kw) ==
    LET m == machine_from_native_kwarg(kw)
        identifier == get_dep_identifier(name, kw)
    IN  IF identifier \in DOMAIN ovr[m]
        THEN IF ~ovr[m][identifier].dep.found
             THEN ovr[m][identifier].dep
             ELSE IF ~check_version(kw.version, ovr[m][identifier].dep.version)
             THEN NotFoundDependency
             ELSE ovr[m][identifier].dep
        ELSE IF identifier \in DOMAIN cache[m]
        THEN IF ~check_version(kw.version, cache[m][identifier].version)
             THEN NoDep
             ELSE cache[m][identifier]
        ELSE NoDep

\* Interpreter.verify_fallback_consistency: the exception it raises, or NoExc.
verify_fallback_consistency(subs, subp_name, varname, cached_dep) ==
    IF cached_dep = NoDep \/ varname = "" \/ ~get_subproject(subs, subp_name)
       \/ ~cached_dep.found
    THEN NoExc
    ELSE IF subs[subp_name].vars[varname] = NoDep
    THEN [kind |-> "InvalidArguments", msg |-> "unknown variable"]
    ELSE IF subs[subp_name].vars[varname] = NonDepValue
    THEN [kind |-> "AttributeError", msg |-> "held_object"]
    ELSE IF subs[subp_name].vars[varname] # cached_dep
    THEN [kind |-> "DependencyException", msg |-> "Inconsistency"]
    ELSE NoExc

\* The outcome of a dependency lookup: a returned dependency, a raised
\* exception, or the fallback subproject that has to be evaluated first.
DRet(d, subs, cache, probed, kw) ==
    [tag |-> "ret", dep |-> d, exc |-> NoExc, subprojects |-> subs, deps |-> cache,
     probed |-> probed, kw |-> kw]
DRaise(kind, msg, subs, cache, probed, kw) ==
    [tag |-> "raise", dep |-> NoDep, exc |-> [kind |-> kind, msg |-> msg],
     subprojects |-> subs, deps |-> cache, probed |-> probed, kw |-> kw]
DEnter(subs, cache, probed, kw) ==
    [tag |-> "enter", dep |-> NoDep, exc |-> NoExc, subprojects |-> subs,
     deps |-> cache, probed |-> probed, kw |-> kw]

\* A tail of get_subproject_dep that stores the dependency it returns in the
\* cache of coredata.
subproject_dep_found_cached(dep, subs, cache, probed, kw) ==
    IF dep = NonDepValue
    THEN DRaise("InvalidCode", "not a dependency object", subs, cache, probed, kw)
    ELSE IF ~dep.found
    THEN IF Truthy(kw.required)
         THEN DRaise("DependencyException", "Could not find dependency in subproject",
                     subs, cache, probed, kw)
         ELSE DRet(dep, subs, cache, probed, kw)
    ELSE IF ~check_version(kw.version, dep.version)
    THEN IF Truthy(kw.required)
         THEN DRaise("DependencyException", "incompatible version", subs, cache, probed, kw)
         ELSE DRet(NotFoundDependency, subs, cache, probed, kw)
    ELSE DRet(dep, subs,
              [cache EXCEPT ![machine_from_native_kwarg(kw)] =
                   Put(@, get_dep_identifier("z", kw), dep)],
              probed, kw)

\* A tail of get_subproject_dep that returns a dependency that is not found
\* to a required request too.
subproject_dep_found_lenient(dep, subs, cache, probed, kw) ==
    IF dep = NonDepValue
    THEN DRaise("InvalidCode", "not a dependency object", subs, cache, probed, kw)
    ELSE IF ~dep.found
    THEN DRet(dep, subs, cache, probed, kw)
    ELSE IF ~check_version(kw.version, dep.version)
    THEN IF Truthy(kw.required)
         THEN DRaise("DependencyException", "incompatible version", subs, cache, probed, kw)
         ELSE DRet(NotFoundDependency, subs, cache, probed, kw)
    ELSE DRet(dep, subs, cache, probed, kw)

\* The tail of get_subproject_dep, after the variable was fetched (or the
\* fetch raised InvalidArguments and left the not-found dependency).
subproject_dep_found(dep, subs, cache, probed, kw) ==
    IF dep = NonDepValue
    THEN DRaise("InvalidCode", "not a dependency object", subs, cache, probed, kw)
    ELSE IF ~dep.found
    THEN IF Truthy(kw.required)
         THEN DRaise("DependencyException", "Could not find dependency in subproject",
                     subs, cache, probed, kw)
         ELSE DRet(dep, subs, cache, probed, kw)
    ELSE IF ~check_version(kw.version, dep.version)
    THEN IF Truthy(kw.required)
         THEN DRaise("DependencyException", "incompatible version", subs, cache, probed, kw)
         ELSE DRet(NotFoundDependency, subs, cache, probed, kw)
    ELSE DRet(dep, subs, cache, probed, kw)

\* Interpreter.get_subproject_dep
get_subproject_dep(subs, ovr, cache, name, subp_name, varname, kw, probed) ==
    LET cached_dep == find_cached_dep(ovr, cache, name, kw)
        ce == verify_fallback_consistency(subs, subp_name, varname, cached_dep)
    IN  IF ~get_subproject(subs, subp_name)
        THEN IF Truthy(kw.required)
             THEN DRaise("DependencyException", "Subproject failed to configure",
                         subs, cache, probed, kw)
             ELSE DRet(NotFoundDependency, subs, cache, probed, kw)
        ELSE IF cached_dep # NoDep
        THEN IF varname # "" /\ ce.kind = "InvalidArguments"
             THEN subproject_dep_found(NotFoundDependency, subs, cache, probed, kw)
             ELSE IF varname # "" /\ ce # NoExc
             THEN DRaise(ce.kind, ce.msg, subs, cache, probed, kw)
             ELSE IF Truthy(kw.required) /\ ~cached_dep.found
             THEN DRaise("DependencyException", "Dependency is not satisfied",
                         subs, cache, probed, kw)
             ELSE DRet(cached_dep, subs, cache, probed, kw)
        ELSE IF varname = ""
        THEN IF Truthy(kw.required)
             THEN DRaise("DependencyException", "Subproject did not override dependency",
                         subs, cache, probed, kw)
             ELSE DRet(NotFoundDependency, subs, cache, probed, kw)
        ELSE IF subs[subp_name].vars[varname] = NoDep
        THEN subproject_dep_found(NotFoundDependency, subs, cache, probed, kw)
        ELSE subproject_dep_found(subs[subp_name].vars[varname], subs, cache, probed, kw)

\* A dependency_fallback that does not look at the wrap mode.
dependency_fallback_any_mode(self, subs, ovr, cache, name, fallback, kw, probed, resolves, n) ==
    LET subp_name == fallback_subp(fallback)
        r == do_subproject(self, subs, subp_name, kw.required, resolves, n)
    IN  IF r.tag = "raise"
        THEN DRaise(r.exc.kind, r.exc.msg, r.subprojects, cache, probed, kw)
        ELSE IF r.tag = "enter"
        THEN DEnter(r.subprojects, cache, probed, kw)
        ELSE get_subproject_dep(r.subprojects, ovr, cache, name, subp_name,
                                fallback_var(fallback), kw, probed)

\* Interpreter.dependency_fallback up to the nested evaluation.
dependency_fallback(self, subs, ovr, cache, name, fallback, kw, probed, resolves, n) ==
    LET subp_name == fallback_subp(fallback)
        r == do_subproject(self, subs, subp_name, kw.required, resolves, n)
    IN  IF ~(name \in force_fallback_for \/ subp_name \in force_fallback_for)
           /\ wrap_mode = "nofallback"
        THEN IF Truthy(kw.required)
             THEN DRaise("DependencyException", "not found and fallback is disabled",
                         subs, cache, probed, kw)
             ELSE DRet(NotFoundDependency, subs, cache, probed, kw)
        ELSE IF r.tag = "raise"
        THEN DRaise(r.exc.kind, r.exc.msg, r.subprojects, cache, probed, kw)
        ELSE IF r.tag = "enter"
        THEN DEnter(r.subprojects, cache, probed, kw)
        ELSE get_subproject_dep(r.subprojects, ovr, cache, name, subp_name,
                                fallback_var(fallback), kw, probed)

\* The fallback dependency_impl works with: the 'fallback' keyword, or the
\* implicit provider the wrap resolver names for the dependency.
effective_fallback(subs, name, kw, provider) ==
    IF name # "" /\ kw.fallback = <<>> /\ kw.allow_fallback # "false"
       /\ provider # <<>>
       /\ (kw.allow_fallback = "true" \/ extract_required(kw.required)
           \/ get_subproject(subs, provider[1])
           \/ wrap_mode = "forcefallback" \/ name \in force_fallback_for
           \/ provider[1] \in force_fallback_for)
    THEN provider
    ELSE kw.fallback

\* Options that never force a fallback.
forced_fallback_never(name, kw, provider, fallback) == FALSE

\* Whether dependency_impl skips the external probe because fallback is forced.
forced_fallback(name, kw, provider, fallback) ==
    \/ wrap_mode = "forcefallback"
    \/ name \in force_fallback_for
    \/ (name # "" /\ kw.fallback = <<>> /\ kw.allow_fallback # "false"
        /\ provider # <<>> /\ provider[1] \in force_fallback_for)
    \/ (fallback # <<>> /\ fallback_subp(fallback) \in force_fallback_for)

\* The static check left out: no request is refused before the lookup.
anonymous_required_unchecked(name, required, fallback) == FALSE

\* dependency_impl: "writing just dependency('') is an error, because it can
\* only fail".
anonymous_required(name, required, fallback) ==
    name = "" /\ required /\ fallback = <<>>

\* Interpreter.dependency_impl up to the nested evaluation of a fallback
\* subproject; kwp is kwargs once extract_required_kwarg has left the boolean
\* in kwargs['required']. 'provider' is what the wrap resolver's find_dep_provider
\* answers, 'probe' what find_external_dependency finds, 'resolves' whether
\* the source resolver locates the fallback subproject.
dependency_impl(self, subs, ovr, cache, name, kw, provider, probe, resolves, n) ==
    LET required == extract_required(kw.required)
        fallback == effective_fallback(subs, name, kw, provider)
        cached_dep == find_cached_dep(ovr, cache, name, kw)
        ce == IF fallback # <<>>
              THEN verify_fallback_consistency(subs, fallback_subp(fallback),
                                               fallback_var(fallback), cached_dep)
              ELSE NoExc
        doprobe == name # "" /\ (fallback = <<>> \/ ~forced_fallback(name, kw, provider, fallback))
        kwp == [kw EXCEPT !.required = IF required THEN "true" ELSE "false"]
        m == machine_from_native_kwarg(kw)
    IN  IF extract_disabled(kw.required)
        THEN DRet(NotFoundDependency, subs, cache, FALSE, kw)
        ELSE IF kw.allow_fallback # "none" /\ kw.fallback # <<>>
        THEN DRaise("InvalidArguments", "fallback and allow_fallback are mutually exclusive",
                    subs, cache, FALSE, kwp)
        ELSE IF name # "" /\ kw.fallback = <<>> /\ kw.allow_fallback = "true"
                /\ provider = <<>>
        THEN DRaise("InvalidArguments", "Fallback wrap or subproject not found",
                    subs, cache, FALSE, kwp)
        ELSE IF anonymous_required(name, required, fallback)
        THEN DRaise("InvalidArguments", "Dependency is both required and not-found",
                    subs, cache, FALSE, kwp)
        ELSE IF cached_dep # NoDep
        THEN IF ce # NoExc
             THEN DRaise(ce.kind, ce.msg, subs, cache, FALSE, kwp)
             ELSE IF required /\ ~cached_dep.found
             THEN DRaise("DependencyException", "already checked and was not found",
                         subs, cache, FALSE, kwp)
             ELSE DRet(cached_dep, subs, cache, FALSE, kwp)
        ELSE IF fallback # <<>> /\ get_subproject(subs, fallback_subp(fallback))
        THEN get_subproject_dep(subs, ovr, cache, name, fallback_subp(fallback),
                                fallback_var(fallback), kwp, FALSE)
        ELSE IF doprobe /\ probe.found
        THEN DRet(probe, subs, [cache EXCEPT ![m] = Put(@, get_dep_identifier(name, kw), probe)],
                  TRUE, kwp)
        ELSE IF doprobe /\ required /\ fallback = <<>>
        THEN DRaise("DependencyException", "not found", subs, cache, TRUE, kwp)
        ELSE IF fallback # <<>>
        THEN dependency_fallback(self, subs, ovr, cache, name, fallback, kwp,
                                 doprobe, resolves, n)
        ELSE DRet(NotFoundDependency, subs, cache, doprobe, kwp)

\* An implicit override that replaces the entry an identifier already has.
implicit_override_always(ovr, name, kw, d) ==
    IF name # "" /\ d.found
    THEN [ovr EXCEPT ![machine_from_native_kwarg(kw)] =
              Put(@, get_dep_identifier(name, kw), [dep |-> d, explicit |-> FALSE])]
    ELSE ovr

\* func_dependency that registers no implicit override.
implicit_override_none(ovr, name, kw, d) == ovr

\* func_dependency that registers whatever a named call returns.
implicit_override_unfound(ovr, name, kw, d) ==
    IF name # ""
       /\ get_dep_identifier(name, kw) \notin DOMAIN ovr[machine_from_native_kwarg(kw)]
    THEN [ovr EXCEPT ![machine_from_native_kwarg(kw)] =
              Put(@, get_dep_identifier(name, kw), [dep |-> d, explicit |-> FALSE])]
    ELSE ovr

\* func_dependency after dependency_impl returned d: the implicit override.
implicit_override(ovr, name, kw, d) ==
    IF name # "" /\ d.found
       /\ get_dep_identifier(name, kw) \notin DOMAIN ovr[machine_from_native_kwarg(kw)]
    THEN [ovr EXCEPT ![machine_from_native_kwarg(kw)] =
              Put(@, get_dep_identifier(name, kw), [dep |-> d, explicit |-> FALSE])]
    ELSE ovr

\* ------------------------------------------------------- target registry

\* Kinds of build target; the kind is the discriminator of the identifier.
Kinds == {"exe", "sta"}

\* Target names the build files declare.
TargetNames == {"t"}

\* BuildTarget.get_id: the display name plus the kind discriminator.
get_id(name, kind) == <<name, kind>>

\* A whitespace test that lets every name pass.
IsBlank_never(n) == FALSE

\* Name checks of add_target, on the names the build files use.
IsBlank(n) == n \in {" ", "  "}
StartsWithMeson(n) == n \in {"meson-", "meson-x"}
IsForbiddenTargetName(n) == n \in {"all", "clean", "test", "install"}

\* A registry test that never reports a collision.
target_exists_never(targets, id) == FALSE

\* The collision test of add_target: idname in self.build.targets.
target_exists(targets, id) == id \in DOMAIN targets

\* An add_target that gives every accepted declaration a new token.
add_target_new_token(targets, guids, name, tobj) ==
    IF name = ""
    THEN [exc |-> [kind |-> "InterpreterException", msg |-> "Target name must not be empty."],
          targets |-> targets, target_guids |-> guids]
    ELSE IF IsBlank(name)
    THEN [exc |-> [kind |-> "InterpreterException",
                   msg |-> "Target name must not consist only of whitespace."],
          targets |-> targets, target_guids |-> guids]
    ELSE IF StartsWithMeson(name)
    THEN [exc |-> [kind |-> "InvalidArguments", msg |-> "reserved prefix"],
          targets |-> targets, target_guids |-> guids]
    ELSE IF IsForbiddenTargetName(name)
    THEN [exc |-> [kind |-> "InvalidArguments", msg |-> "reserved name"],
          targets |-> targets, target_guids |-> guids]
    ELSE IF target_exists(targets, get_id(name, tobj.kind))
    THEN [exc |-> [kind |-> "InvalidCode", msg |-> "a target of that name already exists"],
          targets |-> targets, target_guids |-> guids]
    ELSE [exc |-> NoExc,
          targets |-> Put(targets, get_id(name, tobj.kind), tobj),
          target_guids |-> Put(guids, get_id(name, tobj.kind), tobj.serial)]

\* Interpreter.add_target: the exception it raises (NoExc for none), the
\* registry and the table of build-identifier tokens afterwards. The token
\* of a new identifier is fresh: the serial number of the declaration stands
\* for uuid4().
add_target(targets, guids, name, tobj) ==
    IF name = ""
    THEN [exc |-> [kind |-> "InterpreterException", msg |-> "Target name must not be empty."],
          targets |-> targets, target_guids |-> guids]
    ELSE IF IsBlank(name)
    THEN [exc |-> [kind |-> "InterpreterException",
                   msg |-> "Target name must not consist only of whitespace."],
          targets |-> targets, target_guids |-> guids]
    ELSE IF StartsWithMeson(name)
    THEN [exc |-> [kind |-> "InvalidArguments", msg |-> "reserved prefix"],
          targets |-> targets, target_guids |-> guids]
    ELSE IF IsForbiddenTargetName(name)
    THEN [exc |-> [kind |-> "InvalidArguments", msg |-> "reserved name"],
          targets |-> targets, target_guids |-> guids]
    ELSE IF target_exists(targets, get_id(name, tobj.kind))
    THEN [exc |-> [kind |-> "InvalidCode", msg |-> "a target of that name already exists"],
          targets |-> targets, target_guids |-> guids]
    ELSE [exc |-> NoExc,
          targets |-> Put(targets, get_id(name, tobj.kind), tobj),
          target_guids |-> IF get_id(name, tobj.kind) \notin DOMAIN guids
                           THEN Put(guids, get_id(name, tobj.kind), tobj.serial)
                           ELSE guids]

\* ---------------------------------------------------------------- actions

\* The record of a call of the running interpreter that completed.
Done(op, arg, res, d, h, e, kw, probed, entered, n) ==
    [op |-> op, proj |-> Self.name, stack |-> Self.subproject_stack, arg |-> arg,
     kind |-> "", res |-> res, dep |-> d,
     handle |-> h, exc |-> e, kw |-> kw, probed |-> probed, entered |-> entered,
     seq |-> n]

\* func_subproject: subproject(subp_name, required: req, version: wanted).
Subproject(subp_name, req, wanted, resolves, pv) ==
    /\ Running
    /\ \E r \in {do_subproject(Self, subprojects, subp_name, req, resolves, steps + 1)} :
       LET n == steps + 1
           kw == [NoKw EXCEPT !.required = req, !.version = wanted]
       IN  /\ steps' = n
           /\ subprojects' = r.subprojects
           /\ IF r.tag = "enter"
              THEN /\ frames' = EnterFrames(subp_name, pv,
                                    [kind |-> "subproject",
                                     required |-> extract_required(req),
                                     version |-> wanted, dname |-> "", kw |-> kw,
                                     probed |-> FALSE, args |-> <<>>,
                                     not_found_message |-> ""])
                   /\ evals' = [evals EXCEPT ![subp_name] = @ + 1]
                   /\ log_warnings_counter' = 0
                   /\ UNCHANGED <<exc, last>>
              ELSE /\ exc' = r.exc
                   /\ last' = Done("subproject", subp_name, r.tag, NoDep, r.handle,
                                   r.exc, kw, FALSE, FALSE, n)
                   /\ UNCHANGED <<frames, evals, log_warnings_counter>>
    /\ UNCHANGED <<dependency_overrides, deps, wrap_mode, force_fallback_for, global_args, project_args, target_guids,
                   phase, probes, provided, io>>

\* A func_dependency that logs the message once whenever nothing is found.
not_found_messages_once(tag, d, not_found_message) ==
    IF not_found_message = "" THEN 0
    ELSE IF tag = "raise" THEN 1
    ELSE IF ~d.found THEN 1
    ELSE 0

\* func_dependency: how often message_impl logs the not_found_message when
\* dependency_impl raised (tag "raise") or returned d.
not_found_messages(tag, d, not_found_message) ==
    IF not_found_message = "" THEN 0
    ELSE IF tag = "raise" THEN 1
    ELSE IF ~d.found THEN 2
    ELSE 0

\* The interpreter after func_dependency has logged the messages.
WithMessages(self, tag, d, not_found_message) ==
    [self EXCEPT !.messages = @ + not_found_messages(tag, d, not_found_message),
                 !.dependency_call = [not_found_message |-> not_found_message]]

\* func_dependency: dependency(name, ...kw, not_found_message: ...). 'found'
\* is the version the external probe finds, "none" when it finds nothing.
FuncDependency(name, kw, provider, found, resolves, pv, not_found_message) ==
    /\ Running
    /\ \E r \in {dependency_impl(Self, subprojects, dependency_overrides, deps, name, kw,
                                 provider,
                                 IF found = "none" THEN NotFoundDependency
                                 ELSE ExternalDep(found, steps + 1),
                                 resolves, steps + 1)} :
       LET n == steps + 1
           fallback == effective_fallback(subprojects, name, kw, provider)
       IN  /\ steps' = n
           /\ subprojects' = r.subprojects
           /\ deps' = r.deps
           /\ probes' = IF r.probed THEN probes + 1 ELSE probes
           /\ IF r.tag = "enter"
              THEN /\ frames' = EnterFrames(fallback_subp(fallback), pv,
                                    [kind |-> "dependency",
                                     required |-> extract_required(r.kw.required),
                                     version |-> <<>>, dname |-> name,
                                     kw |-> [r.kw EXCEPT !.fallback = fallback],
                                     probed |-> r.probed, args |-> <<>>,
                                     not_found_message |-> not_found_message])
                   /\ evals' = [evals EXCEPT ![fallback_subp(fallback)] = @ + 1]
                   /\ log_warnings_counter' = 0
                   /\ UNCHANGED <<exc, last, dependency_overrides>>
              ELSE /\ exc' = r.exc
                   /\ dependency_overrides' =
                          IF r.tag = "ret"
                          THEN implicit_override(dependency_overrides, name, kw, r.dep)
                          ELSE dependency_overrides
                   /\ last' = Done("dependency", name, r.tag, r.dep, NoHandle, r.exc,
                                   [r.kw EXCEPT !.fallback = fallback], r.probed, FALSE, n)
                   /\ frames' = [frames EXCEPT ![Len(frames)] =
                                     WithMessages(Self, r.tag, r.dep, not_found_message)]
                   /\ UNCHANGED <<evals, log_warnings_counter>>
    /\ UNCHANGED <<wrap_mode, force_fallback_for, global_args, project_args, target_guids, phase, provided, io>>

\* dependency(name, ...kw) without a not_found_message.
Dependency(name, kw, provider, found, resolves, pv) ==
    FuncDependency(name, kw, provider, found, resolves, pv, "")

\* program_from_overrides: the override of the first name that has one.
program_from_overrides(find_overrides, command_names) ==
    LET hits == {i \in 1..Len(command_names) : command_names[i] \in DOMAIN find_overrides}
    IN  IF hits = {} THEN NoProgram
        ELSE find_overrides[command_names[CHOOSE i \in hits : \A j \in hits : i <= j]]

\* store_name_lookups: every name of the call is recorded as searched.
store_name_lookups(self, command_names) ==
    [self EXCEPT !.searched_programs = @ \cup Range(command_names)]

\* An add_find_program_override that does not look at the recorded lookups.
add_find_program_override_unsearched(self, name, exe) ==
    IF name \in DOMAIN self.find_overrides
    THEN [exc |-> [kind |-> "InterpreterException", msg |-> "already been overridden"],
          self |-> self]
    ELSE [exc |-> NoExc,
          self |-> [self EXCEPT !.find_overrides = Put(@, name, exe)]]

\* Interpreter.add_find_program_override
add_find_program_override(self, name, exe) ==
    IF name \in self.searched_programs
    THEN [exc |-> [kind |-> "InterpreterException", msg |-> "already been found"],
          self |-> self]
    ELSE IF name \in DOMAIN self.find_overrides
    THEN [exc |-> [kind |-> "InterpreterException", msg |-> "already been overridden"],
          self |-> self]
    ELSE [exc |-> NoExc,
          self |-> [self EXCEPT !.find_overrides = Put(@, name, exe)]]

\* The result of a find_program call: the program it returns or the error
\* it raises, and the interpreter after it.
ProgRet(prog, self) == [tag |-> "ret", prog |-> prog, exc |-> NoExc, self |-> self]
ProgRaise(msg, self) ==
    [tag |-> "raise", prog |-> NoProgram,
     exc |-> [kind |-> "InterpreterException", msg |-> msg], self |-> self]

\* program_lookup: the program the overrides or the system search ('sysprog')
\* give, or the subproject the wrap resolver names as provider ("" when it
\* names none) and the call has to evaluate. No name of these runs ends in
\* python3.
program_lookup(self, wm, args, required, provider, sysprog) ==
    LET fallback == IF wm # "nofallback" THEN provider ELSE ""
    IN  IF program_from_overrides(self.find_overrides, args).found
        THEN [tag |-> "prog", prog |-> program_from_overrides(self.find_overrides, args),
              fallback |-> ""]
        ELSE IF fallback # "" /\ wm = "forcefallback"
        THEN [tag |-> "fallback", prog |-> NoProgram, fallback |-> fallback]
        ELSE IF sysprog.found
        THEN [tag |-> "prog", prog |-> sysprog, fallback |-> ""]
        ELSE IF fallback # "" /\ required
        THEN [tag |-> "fallback", prog |-> NoProgram, fallback |-> fallback]
        ELSE [tag |-> "prog", prog |-> NoProgram, fallback |-> ""]

\* find_program_impl behind program_lookup: the not-found exits, the version
\* check, and the record of a successful lookup.
find_program_impl(self, args, progobj, required, wanted) ==
    IF ~progobj.found
    THEN IF required
         THEN ProgRaise("Program not found", self)
         ELSE ProgRet(NoProgram, self)
    ELSE IF Len(wanted) > 0 /\ ~version_compare_many(progobj.version, wanted)
    THEN IF required
         THEN ProgRaise("Invalid version of program", self)
         ELSE ProgRet(NoProgram, self)
    ELSE ProgRet(progobj, store_name_lookups(self, args))

\* find_program_fallback behind do_subproject, whose result is r: the
\* program the overrides of the build give now.
find_program_fallback(self, r, args, required, wanted) ==
    IF r.tag = "raise"
    THEN [tag |-> "raise", prog |-> NoProgram, exc |-> r.exc, self |-> self]
    ELSE find_program_impl(self, args, program_from_overrides(self.find_overrides, args),
                           required, wanted)

\* The interpreter after the find_program call with result g.
WithProgramCall(g, args, n) ==
    [g.self EXCEPT !.program = [args |-> args, res |-> g.tag, prog |-> g.prog, seq |-> n],
                   !.looked_up = IF g.tag = "ret" /\ g.prog.found
                                 THEN @ \cup Range(args) ELSE @]

\* do_subproject has returned to the interpreter 'inv' with result r, after
\* the nested interpreter 'subi' ended: func_subproject hands the handle to
\* the build file; dependency_fallback goes on with get_subproject_dep and
\* func_dependency with the implicit override; find_program_fallback goes on
\* with the overrides and find_program_impl with its checks.
ReturnFromSubproject(inv, subi, r, n) ==
    LET pend == subi.pend
        after == IF r.tag = "ret"
                 THEN get_subproject_dep(r.subprojects, dependency_overrides, deps,
                                         pend.dname, subi.name,
                                         fallback_var(pend.kw.fallback), pend.kw, pend.probed)
                 ELSE DRaise(r.exc.kind, r.exc.msg, r.subprojects, deps, pend.probed, pend.kw)
        key == <<machine_from_native_kwarg(pend.kw), get_dep_identifier(pend.dname, pend.kw)>>
        back == [inv EXCEPT !.looked_up = subi.looked_up]
        prog == find_program_fallback(back, r, pend.args, pend.required, pend.version)
    IN  /\ frames' = Append(SubSeq(frames, 1, Len(frames) - 2),
                            IF pend.kind = "program"
                            THEN WithProgramCall(prog, pend.args, n)
                            ELSE IF pend.kind = "dependency"
                            THEN WithMessages(back, after.tag, after.dep,
                                              pend.not_found_message)
                            ELSE back)
        /\ subprojects' = r.subprojects
        /\ IF pend.kind = "program"
           THEN /\ exc' = prog.exc
                /\ last' = [op |-> "find_program", proj |-> inv.name,
                            stack |-> inv.subproject_stack, arg |-> pend.args[1],
                            kind |-> "", res |-> prog.tag, dep |-> NoDep,
                            handle |-> r.handle, exc |-> prog.exc, kw |-> pend.kw,
                            probed |-> FALSE, entered |-> TRUE, seq |-> n]
                /\ UNCHANGED <<dependency_overrides, provided>>
           ELSE IF pend.kind = "subproject"
           THEN /\ exc' = r.exc
                /\ last' = [op |-> "subproject", proj |-> inv.name,
                            stack |-> inv.subproject_stack, arg |-> subi.name,
                            kind |-> "", res |-> r.tag, dep |-> NoDep,
                            handle |-> r.handle, exc |-> r.exc, kw |-> pend.kw,
                            probed |-> FALSE, entered |-> TRUE, seq |-> n]
                /\ UNCHANGED <<dependency_overrides, provided>>
           ELSE \E g \in {after} :
                /\ exc' = g.exc
                /\ dependency_overrides' =
                       IF g.tag = "ret"
                       THEN implicit_override(dependency_overrides, pend.dname, pend.kw, g.dep)
                       ELSE dependency_overrides
                /\ last' = [op |-> "dependency", proj |-> inv.name,
                            stack |-> inv.subproject_stack, arg |-> pend.dname,
                            kind |-> "", res |-> g.tag, dep |-> g.dep,
                            handle |-> NoHandle, exc |-> g.exc, kw |-> pend.kw,
                            probed |-> pend.probed, entered |-> TRUE, seq |-> n]
                /\ provided' =
                       IF g.tag = "ret" /\ g.dep.found /\ pend.probed /\ pend.required
                       THEN Put(provided, key, [dep |-> g.dep, subp |-> subi.name])
                       ELSE provided

\* An invoker that takes over the lists and the build of every nested
\* evaluation that ran to its end.
invoker_after_always_merged(inv, subi, r) ==
    MergeBuild(merge_build_def_files(inv, subi), subi)

\* The invoker after _do_subproject_meson: the lists and the build of the
\* nested interpreter are merged behind the version check, when the handle
\* is stored.
invoker_after(inv, subi, r) ==
    IF r.tag = "ret" /\ r.handle.found
    THEN MergeBuild(merge_build_def_files(inv, subi), subi)
    ELSE inv

\* The build file of the running interpreter ends: Interpreter.run returns.
\* For a nested interpreter _do_subproject_meson stores the handle, merges
\* the build and returns to the invoker.
Finish ==
    /\ Running
    /\ Self.subdir_calls = <<>>
    /\ steps' = steps + 1
    /\ IF Len(frames) = 1
       THEN /\ phase' = "done"
            /\ UNCHANGED <<frames, subprojects, dependency_overrides, exc, last, provided,
                           log_warnings_counter>>
       ELSE \E r \in {subproject_finished(
                          subprojects,
                          [Self EXCEPT !.subi_warnings = log_warnings_counter],
                          steps + 1)} :
            LET subi == Self
                inv == frames[Len(frames) - 1]
            IN  /\ ReturnFromSubproject(invoker_after(inv, subi, r), subi, r, steps + 1)
                /\ log_warnings_counter' = Self.current_warnings_counter
                /\ phase' = phase
    /\ UNCHANGED <<deps, wrap_mode, force_fallback_for, global_args, project_args, target_guids, evals, probes, io>>

\* An exception leaves the running interpreter. The root's run is aborted; a
\* nested interpreter's exception reaches the handler of do_subproject.
Unwind ==
    /\ phase = "run"
    /\ exc # NoExc
    /\ steps' = steps
    /\ IF Len(frames) = 1
       THEN /\ phase' = "aborted"
            /\ UNCHANGED <<frames, subprojects, dependency_overrides, exc, last, provided>>
       ELSE \E r \in {subproject_failed(subprojects, Self.name, Self.pend.required,
                                         exc, steps + 1)} :
            LET subi == Self
                inv == frames[Len(frames) - 1]
            IN  /\ ReturnFromSubproject(inv, subi, r, steps + 1)
                /\ phase' = phase
    /\ UNCHANGED <<deps, wrap_mode, log_warnings_counter, force_fallback_for, global_args, project_args, target_guids, evals, probes, io>>

\* build_target: a target declaration name/kind of the running interpreter.
AddTarget(name, kind) ==
    /\ Running
    /\ \E r \in {add_target(Self.targets, target_guids, name,
                            [name |-> name, kind |-> kind, subproject |-> Self.name,
                             serial |-> steps + 1])} :
       LET n == steps + 1
       IN  /\ steps' = n
           /\ frames' = [frames EXCEPT
                  ![Len(frames)].targets = r.targets,
                  ![Len(frames)].project_args_frozen = IF r.exc = NoExc THEN TRUE ELSE @]
           /\ target_guids' = r.target_guids
           /\ exc' = r.exc
           /\ last' = [Done("add_target", name, IF r.exc = NoExc THEN "ret" ELSE "raise",
                            NoDep, NoHandle, r.exc, NoKw, FALSE, FALSE, n)
                       EXCEPT !.kind = kind]
    /\ UNCHANGED <<subprojects, dependency_overrides, deps, wrap_mode, log_warnings_counter,
                   force_fallback_for, global_args, project_args, phase, evals, probes, provided, io>>

\* An assignment var = value, value a declare_dependency() object or a string.
Assign(var, value) ==
    /\ Running
    /\ steps' = steps + 1
    /\ frames' = [frames EXCEPT ![Len(frames)].vars[var] = value]
    /\ last' = Done("assign", var, "ret", value, NoHandle, NoExc, NoKw, FALSE, FALSE,
                    steps + 1)
    /\ UNCHANGED <<subprojects, dependency_overrides, deps, wrap_mode, log_warnings_counter,
                   force_fallback_for, global_args, project_args, target_guids, exc, phase, evals, probes, provided, io>>

\* meson.override_dependency(name, d, native: m): an explicit override.
override_dependency(ovr, name, m, d) ==
    IF name = ""
    THEN [exc |-> [kind |-> "InterpreterException", msg |-> "name cannot be empty"],
          ovr |-> ovr]
    ELSE IF <<name, "">> \in DOMAIN ovr[m]
    THEN [exc |-> [kind |-> "InterpreterException",
                   msg |-> "already resolved or overridden"],
          ovr |-> ovr]
    ELSE [exc |-> NoExc,
          ovr |-> [ovr EXCEPT ![m] = Put(@, <<name, "">>, [dep |-> d, explicit |-> TRUE])]]

\* The override directive evaluated by the running interpreter.
OverrideDependency(name, m, d) ==
    /\ Running
    /\ \E r \in {override_dependency(dependency_overrides, name, m, d)} :
           /\ steps' = steps + 1
           /\ dependency_overrides' = r.ovr
           /\ exc' = r.exc
           /\ last' = Done("override_dependency", name,
                           IF r.exc = NoExc THEN "ret" ELSE "raise", d, NoHandle, r.exc,
                           [NoKw EXCEPT !.native = m], FALSE, FALSE, steps + 1)
    /\ UNCHANGED <<frames, subprojects, deps, wrap_mode, log_warnings_counter, force_fallback_for, global_args, project_args, target_guids, phase,
                   evals, probes, provided, io>>

\* A statement that raises: error() raises InterpreterException, invalid
\* code raises InvalidCode.
Raise(kind) ==
    /\ Running
    /\ steps' = steps + 1
    /\ exc' = [kind |-> kind, msg |-> "Problem encountered"]
    /\ last' = Done("error", "", "raise", NoDep, NoHandle,
                    [kind |-> kind, msg |-> "Problem encountered"], NoKw, FALSE, FALSE,
                    steps + 1)
    /\ UNCHANGED <<frames, subprojects, dependency_overrides, deps, wrap_mode, log_warnings_counter,
                   force_fallback_for, global_args, project_args, target_guids, phase, evals, probes, provided, io>>

\* ------------------------------------------------------------ the runs

\* The dependency objects the running interpreter can hand to a call.
HeldDeps == {Self.vars[v] : v \in VarNames} \ {NoDep, NonDepValue}

\* Versions the external probe may find ("none": not found).
ProbeFinds == {"none", "1.2.0"}

\* Keyword arguments of a dependency() call that names a fallback.
FallbackKwargs ==
    [required : {"true", "false"}, version : {<<>>}, native : {"host"},
     modules : {""}, fallback : {<<"A", "v">>}, allow_fallback : {"none"}]

\* A run of the composition engine: subproject() calls, dependency() calls
\* that fall back to a subproject, target declarations, failing statements.
Next ==
    \/ \E s \in SubNames, req \in ReqKinds, resolves \in BOOLEAN :
           Subproject(s, req, <<>>, resolves, "1.2.0")
    \/ \E kw \in FallbackKwargs :
           Dependency("z", kw, <<>>, "none", TRUE, "1.2.0")
    \/ \E k \in Kinds : AddTarget("t", k)
    \/ Assign("v", DeclaredDep(Self.name, "1.2.0", steps + 1))
    \/ \E kind \in {"InterpreterException", "InvalidCode"} : Raise(kind)
    \/ Finish
    \/ Unwind

Spec == Init /\ [][Next]_vars

\* ------------------------------------------------- subproject engine claims

\* A call of the running interpreter completed in this step.
Completes(op) == last' # last /\ last'.op = op

\* The message the cycle check builds for a call of 'name' from 'stack'.
CycleMessage(stack, name) ==
    "Recursive include of subprojects: " \o Join(Append(stack, name), " => ") \o "."

\* C1 (as stated): in one run a subproject directory is evaluated at most
\* once, whatever the outcome of its evaluation and however many
\* subproject() or fallback requests name it.
C1_EvaluatedAtMostOnce == \A s \in SubNames : evals[s] <= 1

C6_CachedHandleKept ==
    [][/\ \A s \in DOMAIN subprojects :
              s \in DOMAIN subprojects' /\ subprojects'[s] = subprojects[s]
       /\ (Completes("subproject") /\ last'.arg \in DOMAIN subprojects)
              => \/ last'.res = "ret" /\ last'.handle = subprojects[last'.arg]
                 \/ /\ last'.res = "raise"
                    /\ ~subprojects[last'.arg].found
                    /\ extract_required(last'.kw.required)]_vars

\* ------------------------------------------------------- registry claims

\* C3: add_target fails with a fatal error, leaving the registry as it was,
\* whenever the identifier (name plus kind) of the new target is already a key
\* of the registry of the running interpreter; a target whose name is valid
\* and whose identifier is new is accepted under that identifier; and no entry
\* of a registry is ever removed or replaced, so two targets of one name and
\* different kinds both stay retrievable.
C3_NoIdentifierCollision ==
    [][/\ Completes("add_target")
          => LET id == get_id(last'.arg, last'.kind)
                 old == Self.targets
                 new == frames'[Len(frames)].targets
             IN  IF id \in DOMAIN old
                 THEN /\ last'.res = "raise"
                      /\ last'.exc.kind = "InvalidCode"
                      /\ new = old
                 ELSE IF \/ last'.arg = "" \/ IsBlank(last'.arg)
                         \/ StartsWithMeson(last'.arg) \/ IsForbiddenTargetName(last'.arg)
                 THEN last'.res = "raise" /\ new = old
                 ELSE /\ last'.res = "ret"
                      /\ DOMAIN new = DOMAIN old \cup {id}
                      /\ new[id].name = last'.arg /\ new[id].kind = last'.kind
       /\ \A i \in 1..Len(frames) :
              i <= Len(frames')
                  => \A id \in DOMAIN frames[i].targets :
                         /\ id \in DOMAIN frames'[i].targets
                         /\ frames'[i].targets[id] = frames[i].targets[id]]_vars

\* C3 witness: the registry holds an executable and a static library both
\* named t, and declaring one of them again has just failed.
C3_Witness ==
    /\ last.op = "add_target"
    /\ last.res = "raise"
    /\ last.exc.kind = "InvalidCode"
    /\ get_id(last.arg, "exe") \in DOMAIN Self.targets
    /\ get_id(last.arg, "sta") \in DOMAIN Self.targets
    /\ Self.targets[get_id(last.arg, "exe")] # Self.targets[get_id(last.arg, "sta")]

\* ------------------------------------------------------ dependency runs

\* Keyword arguments of the dependency() calls of a run.
DepKwargs ==
    [required : ReqKinds, version : {<<>>, <<">=1.3">>}, native : {"host"},
     modules : {""}, fallback : {<<>>, <<"A", "v">>}, allow_fallback : {"none"}]

\* What coredata.deps holds when the run starts: nothing on a first
\* configuration, the dependencies found earlier on a reconfiguration.
StoredDeps ==
    {[m \in Machines |-> EmptyDict],
     [m \in Machines |->
         IF m = "host"
         THEN Put(EmptyDict, get_dep_identifier("z", NoKw), ExternalDep("1.4.0", 0))
         ELSE EmptyDict]}

\* The start of a run over a given coredata.
InitDep == \E cache \in StoredDeps : InitRun(cache, NoIO)

\* A run of the dependency resolver: lookups with and without fallback,
\* variables a fallback subproject assigns, explicit overrides.
NextDep ==
    \/ \E name \in DepNames, kw \in DepKwargs, found \in ProbeFinds :
           Dependency(name, kw, <<>>, found, TRUE, "1.2.0")
    \/ \E ver \in {"1.2.0", "1.4.0"} :
           Assign("v", DeclaredDep(Self.name, ver, steps + 1))
    \/ \E d \in HeldDeps \cup {NotFoundDependency} : OverrideDependency("z", "host", d)
    \/ Raise("InterpreterException")
    \/ Finish
    \/ Unwind

SpecDep == InitDep /\ [][NextDep]_vars

\* ---------------------------------------------------- dependency claims

\* The machine and cache identifier of the dependency() call recorded in l.
DepKey(l) == <<machine_from_native_kwarg(l.kw), get_dep_identifier(l.arg, l.kw)>>

\* The override table holds an explicit override under key k.
ExplicitlyOverridden(ovr, k) == k[2] \in DOMAIN ovr[k[1]] /\ ovr[k[1]][k[2]].explicit

\* The dependency() call recorded in l names the fallback variable of a
\* configured subproject that does not hold the dependency d.
FallbackInconsistent(subs, l, d) ==
    /\ l.kw.fallback # <<>>
    /\ verify_fallback_consistency(subs, fallback_subp(l.kw.fallback),
                                   fallback_var(l.kw.fallback), d) # NoExc

\* C4 (as stated): a dependency() call made while the override table of its
\* machine holds an explicit override for its identifier returns the
\* override's dependency, or NotFound when the override's version fails the
\* requested constraints, without probing and whatever the cache holds.
C4_OverrideOrNotFound ==
    [][(/\ Completes("dependency")
        /\ ~last'.entered
        /\ ExplicitlyOverridden(dependency_overrides, DepKey(last')))
          => LET o == dependency_overrides[DepKey(last')[1]][DepKey(last')[2]].dep
             IN  /\ last'.res = "ret"
                 /\ last'.dep = IF o.found /\ ~check_version(last'.kw.version, o.version)
                                THEN NotFoundDependency
                                ELSE o
                 /\ ~last'.probed
                 /\ deps' = deps]_vars

\* C4 (amended): such a call never probes, never enters a subproject and never
\* returns the cache entry. If its feature is disabled it returns NotFound.
\* Otherwise, if the override is found and its version satisfies the
\* constraints, it returns the override's dependency, except that it fails
\* when it names the fallback variable of a configured subproject that holds
\* another object; and if the override is not found or its version fails, an
\* optional call returns a not-found dependency and a required call fails.
C4_ExplicitOverrideDecides ==
    [][(/\ Completes("dependency")
        /\ ~last'.entered
        /\ ExplicitlyOverridden(dependency_overrides, DepKey(last')))
          => LET o == dependency_overrides[DepKey(last')[1]][DepKey(last')[2]].dep
                 ok == o.found /\ check_version(last'.kw.version, o.version)
             IN  /\ ~last'.probed
                 /\ probes' = probes
                 /\ deps' = deps
                 /\ evals' = evals
                 /\ frames' = frames
                 /\ IF last'.kw.required = "disabled"
                    THEN last'.res = "ret" /\ last'.dep = NotFoundDependency
                    ELSE IF ok /\ FallbackInconsistent(subprojects, last', o)
                    THEN last'.res = "raise"
                    ELSE IF ok
                    THEN last'.res = "ret" /\ last'.dep = o
                    ELSE IF last'.kw.required = "true"
                    THEN last'.res = "raise" /\ last'.exc.kind = "DependencyException"
                    ELSE last'.res = "ret" /\ ~last'.dep.found]_vars

\* C4 witness: a call returned the explicitly overriding dependency while the
\* cache held another, found entry under the same identifier.
C4_Witness ==
    /\ last.op = "dependency"
    /\ ~last.entered
    /\ last.res = "ret"
    /\ last.dep.found
    /\ ExplicitlyOverridden(dependency_overrides, DepKey(last))
    /\ dependency_overrides[DepKey(last)[1]][DepKey(last)[2]].dep = last.dep
    /\ DepKey(last)[2] \in DOMAIN deps[DepKey(last)[1]]
    /\ deps[DepKey(last)[1]][DepKey(last)[2]].found
    /\ deps[DepKey(last)[1]][DepKey(last)[2]] # last.dep

C7_OptionalNeverFails ==
    last.op = "dependency"
        => /\ (last.kw.required = "true" /\ last.res = "ret") => last.dep.found
           /\ last.kw.required # "true" => last.res = "ret"

\* C7 (amended): a required dependency() call never returns a not-found
\* dependency; an optional call without a fallback always returns a
\* dependency value; an optional call with a fallback returns one too, unless
\* the fallback subproject is being configured (a cycle) or its evaluation is
\* invalid code, or the fallback variable is not a dependency, is unknown, or
\* does not hold the dependency found in the override table or the cache.
C7_RequiredFailsOptionalReturns ==
    last.op = "dependency"
        => /\ (last.kw.required = "true" /\ last.res = "ret") => last.dep.found
           /\ (last.kw.required # "true" /\ last.res = "ret")
                  => last.exc = NoExc
           /\ (last.kw.required # "true" /\ last.res = "raise")
                  => /\ last.kw.fallback # <<>>
                     /\ \/ last.exc.kind = "InvalidCode"
                        \/ last.exc = [kind |-> "DependencyException", msg |-> "Inconsistency"]
                        \/ last.exc = [kind |-> "InvalidArguments", msg |-> "unknown variable"]
                        \/ last.exc.kind = "AttributeError"

\* C7 witness: the fallback subproject of an optional request failed, and the
\* request returned a not-found dependency.
C7_Witness ==
    /\ last.op = "dependency"
    /\ last.kw.required = "false"
    /\ last.entered
    /\ last.probed
    /\ last.res = "ret"
    /\ ~last.dep.found
    /\ ~get_subproject(subprojects, fallback_subp(last.kw.fallback))

\* C10: dependency('') that is required and has no fallback fails with
\* InvalidArguments without probing and without entering a subproject, and
\* leaves the cache, the override tables and the subproject cache as they
\* were.
C10_AnonymousRequiredFailsStatically ==
    [][(/\ Completes("dependency")
        /\ last'.arg = ""
        /\ last'.kw.required = "true"
        /\ last'.kw.fallback = <<>>)
          => /\ last'.res = "raise"
             /\ last'.exc.kind = "InvalidArguments"
             /\ ~last'.probed
             /\ ~last'.entered
             /\ probes' = probes
             /\ deps' = deps
             /\ dependency_overrides' = dependency_overrides
             /\ subprojects' = subprojects
             /\ evals' = evals
             /\ frames' = frames]_vars

\* C10 witness: the call failed in a run whose cache, override table and
\* subproject cache all hold entries.
C10_Witness ==
    /\ last.op = "dependency"
    /\ last.arg = ""
    /\ last.kw.required = "true"
    /\ last.kw.fallback = <<>>
    /\ last.res = "raise"
    /\ last.exc.kind = "InvalidArguments"
    /\ deps["host"] # EmptyDict
    /\ dependency_overrides["host"] # EmptyDict
    /\ subprojects # EmptyDict

\* ------------------------------------------------------ sandbox validator

\* Longest file name argument, in path components.
MaxPathLen == 4

\* Paths are sequences of components below the filesystem root.
\* self.environment.source_dir
SourceDir == <<"home", "src">>

\* self.subproject_dir
subproject_dir == "subprojects"

\* Components of the file names the build files pass.
PathParts == {"..", "subprojects", "A", "B", "f"}

\* Path.resolve() on a path without symbolic links: '..' steps to the parent,
\* and the parent of the root is the root.
RECURSIVE ResolveFrom(_, _)
ResolveFrom(base, parts) ==
    IF Len(parts) = 0 THEN base
    ELSE IF Head(parts) = ".."
    THEN ResolveFrom(IF Len(base) = 0 THEN base ELSE SubSeq(base, 1, Len(base) - 1),
                     Tail(parts))
    ELSE ResolveFrom(Append(base, Head(parts)), Tail(parts))

\* Path(srcdir, subdir, fname).resolve(): an absolute fname replaces what
\* precedes it.
ResolvePath(srcdir, subdir, fname) ==
    IF fname.abs
    THEN ResolveFrom(<<>>, fname.parts)
    ELSE ResolveFrom(<<>>, srcdir \o subdir \o fname.parts)

\* a in b.parents: a is a proper ancestor of b.
InParents(a, b) == Len(a) < Len(b) /\ SubSeq(b, 1, Len(a)) = a

\* Interpreter.validate_within_subproject: "ok" when it returns, otherwise the
\* sandbox violation it raises.
validate_within_subproject(root_subdir, subdir, fname) ==
    LET srcdir == SourceDir
        norm == ResolvePath(srcdir, subdir, fname)
        project_root == srcdir \o root_subdir
    IN  IF ~InParents(srcdir, norm) THEN "ok"
        ELSE IF norm = project_root THEN "ok"
        ELSE IF ~InParents(project_root, norm) THEN "outside current (sub)project"
        ELSE IF InParents(Append(project_root, subproject_dir), norm)
        THEN "from a nested subproject"
        ELSE "ok"

\* All sequences over S of length at most n.
RECURSIVE SeqsUpTo(_, _)
SeqsUpTo(S, n) ==
    IF n = 0 THEN {<<>>}
    ELSE SeqsUpTo(S, n - 1) \cup {Append(q, x) : q \in SeqsUpTo(S, n - 1), x \in S}

\* The calls of the validator: from the root project or from subproject A,
\* in the project's top directory or in its directory f, with a relative or
\* an absolute file name.
PathInputs ==
    {[op |-> "validate_within_subproject", root_subdir |-> r, subdir |-> r \o d,
      fname |-> [abs |-> a, parts |-> p], done |-> FALSE, res |-> ""] :
        r \in {<<>>, <<subproject_dir, "A">>}, d \in {<<>>, <<"f">>},
        a \in BOOLEAN, p \in SeqsUpTo(PathParts, MaxPathLen)}

InitPath == \E in \in PathInputs : InitRun([m \in Machines |-> EmptyDict], in)

\* source_strings_to_files validates one file name.
ValidateWithinSubproject ==
    /\ io.op = "validate_within_subproject"
    /\ ~io.done
    /\ io' = [io EXCEPT !.done = TRUE,
                        !.res = validate_within_subproject(io.root_subdir, io.subdir,
                                                           io.fname)]
    /\ UNCHANGED <<frames, subprojects, dependency_overrides, deps, wrap_mode, log_warnings_counter,
                   force_fallback_for, global_args, project_args, target_guids, exc, phase, last, evals, probes, provided, steps>>

NextPath == ValidateWithinSubproject

SpecPath == InitPath /\ [][NextPath]_vars

\* a is b or an ancestor of b.
Within(a, b) == a = b \/ InParents(a, b)

\* C8 (as stated): the validator accepts a path exactly when it resolves
\* outside the source root, or inside the current project's subtree and not
\* under that project's nested-subprojects directory; every other path is
\* rejected with a sandbox violation.
C8_AcceptsOnlySandboxedPaths ==
    (io.op = "validate_within_subproject" /\ io.done)
        => LET norm == ResolvePath(SourceDir, io.subdir, io.fname)
               project_root == SourceDir \o io.root_subdir
           IN  (io.res = "ok")
                   <=> \/ ~Within(SourceDir, norm)
                       \/ /\ Within(project_root, norm)
                          /\ ~InParents(Append(project_root, subproject_dir), norm)

\* ---------------------------------------------------------- version check

\* Longest list of version constraints of a request.
MaxWanted == 2

\* Versions a located candidate may report.
FoundVersions == {"undefined", "1.0", "1.2.0", "1.3", "1.4.0", "2.0"}

\* Version constraints the build files write.
Constraints == {">=1.3", ">=1.0", "<1.4.0", "==1.2.0"}

\* The calls of check_version, each with a candidate of the found version
\* that _find_cached_dep locates by name in the override table or the cache.
VersionInputs ==
    {[op |-> "check_version", wanted |-> w, found |-> f, where |-> t, done |-> FALSE,
      ok |-> FALSE, cached |-> NoDep] :
        w \in SeqsUpTo(Constraints, MaxWanted), f \in FoundVersions,
        t \in {"override", "cache"}}

InitVer == \E in \in VersionInputs : InitRun([m \in Machines |-> EmptyDict], in)

\* The table 'where' holding candidate d under the identifier of z.
TableWith(where, t, d) ==
    [m \in Machines |->
        IF m = "host" /\ where = t
        THEN Put(EmptyDict, get_dep_identifier("z", NoKw), d)
        ELSE EmptyDict]

\* check_version(wanted, found), and _find_cached_dep for a request with the
\* constraints 'wanted' when the candidate is cached with version 'found'.
CheckVersion ==
    /\ io.op = "check_version"
    /\ ~io.done
    /\ io' = [io EXCEPT
                 !.done = TRUE,
                 !.ok = check_version(io.wanted, io.found),
                 !.cached = find_cached_dep(
                                TableWith(io.where, "override",
                                          [dep |-> ExternalDep(io.found, 0), explicit |-> FALSE]),
                                TableWith(io.where, "cache", ExternalDep(io.found, 0)),
                                "z", [NoKw EXCEPT !.version = io.wanted])]
    /\ UNCHANGED <<frames, subprojects, dependency_overrides, deps, wrap_mode, log_warnings_counter,
                   force_fallback_for, global_args, project_args, target_guids, exc, phase, last, evals, probes, provided, steps>>

NextVer == CheckVersion

SpecVer == InitVer /\ [][NextVer]_vars

\* C9: check_version(wanted, found) is true exactly when wanted is empty, or
\* found is not 'undefined' and satisfies every constraint of wanted; a
\* candidate cached under the requested name is returned when check_version
\* is true of its version and is treated as not found otherwise (a not-found
\* dependency from the override table, nothing from the cache); 1.2.0 is not
\* found for '>=1.3' and found for '>=1.0'.
C9_CheckVersion ==
    (io.op = "check_version" /\ io.done)
        => /\ io.ok <=> \/ io.wanted = <<>>
                        \/ /\ io.found # "undefined"
                           /\ \A i \in 1..Len(io.wanted) :
                                  version_compare(io.found, io.wanted[i])
           /\ io.ok => io.cached = ExternalDep(io.found, 0)
           /\ ~io.ok => ~io.cached.found
           /\ (~io.ok /\ io.where = "override") => io.cached = NotFoundDependency
           /\ (~io.ok /\ io.where = "cache") => io.cached = NoDep
           /\ (io.found = "1.2.0" /\ io.wanted = <<">=1.3">>) => ~io.ok /\ ~io.cached.found
           /\ (io.found = "1.2.0" /\ io.wanted = <<">=1.0">>) => io.ok /\ io.cached.found

\* C9 witness: the candidate 1.2.0, located by name in the cache, was refused
\* for the constraint '>=1.3'.
C9_Witness ==
    /\ io.op = "check_version"
    /\ io.done
    /\ io.found = "1.2.0"
    /\ io.wanted = <<">=1.3">>
    /\ io.where = "cache"
    /\ ~io.ok
    /\ io.cached = NoDep

\* ------------------------------------------------- compiler arguments

\* The arguments a build file adds with one call.
ArgValues == {<<"-DX">>}

\* An interpreter that takes every project for the top-level one.
is_subproject_never(self) == FALSE

\* Interpreter.is_subproject
is_subproject(self) == self.name # ""

\* add_arguments with a frozen test that never fires.
add_arguments_unfrozen(argsdict, args_frozen, has_language, args) ==
    IF ~has_language
    THEN [exc |-> [kind |-> "InvalidCode", msg |-> "Missing language definition"],
          argsdict |-> argsdict]
    ELSE [exc |-> NoExc, argsdict |-> argsdict \o args]

\* Interpreter.add_arguments on the argument list of one language.
add_arguments(argsdict, args_frozen, has_language, args) ==
    IF args_frozen
    THEN [exc |-> [kind |-> "InvalidCode",
                   msg |-> "Tried to use it after a build target has been declared."],
          argsdict |-> argsdict]
    ELSE IF ~has_language
    THEN [exc |-> [kind |-> "InvalidCode", msg |-> "Missing language definition"],
          argsdict |-> argsdict]
    ELSE [exc |-> NoExc, argsdict |-> argsdict \o args]

\* Interpreter.add_global_arguments on build.global_args.
add_global_arguments(self, argsdict, has_language, args) ==
    IF is_subproject(self)
    THEN [exc |-> [kind |-> "InvalidCode", msg |-> "cannot be used in subprojects"],
          argsdict |-> argsdict]
    ELSE add_arguments(argsdict, self.project_args_frozen \/ self.global_args_frozen,
                       has_language, args)

\* Interpreter.add_project_arguments on build.projects_args: the entry of the
\* project is created before add_arguments runs.
add_project_arguments(self, argsdict, has_language, args) ==
    LET created == IF self.name \in DOMAIN argsdict THEN argsdict
                   ELSE Put(argsdict, self.name, <<>>)
    IN  \* the entry of the project after add_arguments
        [exc |-> add_arguments(created[self.name], self.project_args_frozen,
                               has_language, args).exc,
         argsdict |-> Put(created, self.name,
                          add_arguments(created[self.name], self.project_args_frozen,
                                        has_language, args).argsdict)]

\* build.get_project_args: the arguments recorded for a project.
get_project_args(argsdict, project) ==
    IF project \in DOMAIN argsdict THEN argsdict[project] ELSE <<>>

\* func_add_global_arguments of the running interpreter.
AddGlobalArguments(has_language, args) ==
    /\ Running
    /\ \E r \in {add_global_arguments(Self, global_args, has_language, args)} :
           /\ steps' = steps + 1
           /\ global_args' = r.argsdict
           /\ exc' = r.exc
           /\ last' = Done("add_global_arguments", "",
                           IF r.exc = NoExc THEN "ret" ELSE "raise", NoDep, NoHandle,
                           r.exc, NoKw, FALSE, FALSE, steps + 1)
    /\ UNCHANGED <<frames, subprojects, dependency_overrides, deps, wrap_mode, log_warnings_counter,
                   force_fallback_for, project_args, target_guids, phase, evals,
                   probes, provided, io>>

\* func_add_project_arguments of the running interpreter.
AddProjectArguments(has_language, args) ==
    /\ Running
    /\ \E r \in {add_project_arguments(Self, project_args, has_language, args)} :
           /\ steps' = steps + 1
           /\ project_args' = r.argsdict
           /\ exc' = r.exc
           /\ last' = Done("add_project_arguments", "",
                           IF r.exc = NoExc THEN "ret" ELSE "raise", NoDep, NoHandle,
                           r.exc, NoKw, FALSE, FALSE, steps + 1)
    /\ UNCHANGED <<frames, subprojects, dependency_overrides, deps, wrap_mode, log_warnings_counter,
                   force_fallback_for, global_args, target_guids, phase, evals,
                   probes, provided, io>>

\* _func_custom_target_impl: a custom target 'name' of the running
\* interpreter; the project arguments are not frozen.
CustomTarget(name) ==
    /\ Running
    /\ \E r \in {add_target(Self.targets, target_guids, name,
                            [name |-> name, kind |-> "cus", subproject |-> Self.name,
                             serial |-> steps + 1])} :
       LET n == steps + 1
       IN  /\ steps' = n
           /\ frames' = [frames EXCEPT ![Len(frames)].targets = r.targets]
           /\ target_guids' = r.target_guids
           /\ exc' = r.exc
           /\ last' = [Done("add_target", name, IF r.exc = NoExc THEN "ret" ELSE "raise",
                            NoDep, NoHandle, r.exc, NoKw, FALSE, FALSE, n)
                       EXCEPT !.kind = "cus"]
    /\ UNCHANGED <<subprojects, dependency_overrides, deps, wrap_mode, log_warnings_counter,
                   force_fallback_for, global_args, project_args, phase, evals,
                   probes, provided, io>>

\* Names of target declarations that add_target must reject.
BadTargetNames == {"", " ", "meson-x", "all"}

\* A run of projects that declare targets and add compiler arguments:
\* build targets and custom targets under valid and invalid names, project
\* and global arguments, subprojects.
NextTgt ==
    \/ \E s \in SubNames, req \in {"true", "false"} :
           Subproject(s, req, <<>>, TRUE, "1.2.0")
    \/ \E k \in Kinds : AddTarget("t", k)
    \/ \E name \in BadTargetNames : AddTarget(name, "exe")
    \/ \E name \in {"t", " "} : CustomTarget(name)
    \/ \E l \in BOOLEAN, a \in ArgValues : AddGlobalArguments(l, a)
    \/ \E l \in BOOLEAN, a \in ArgValues : AddProjectArguments(l, a)
    \/ Finish
    \/ Unwind

SpecTgt == Init /\ [][NextTgt]_vars

\* ------------------------------------------------ target and argument claims

\* The registries of the interpreters on the stack are the same after the step.
RegistriesUnchanged ==
    /\ Len(frames') = Len(frames)
    /\ \A i \in 1..Len(frames) : frames'[i].targets = frames[i].targets

\* C11: add_target raises an error for a name that is empty, consists only of
\* whitespace, begins with 'meson-' or is a forbidden target name, and every
\* call of add_target that raises (a colliding identifier included) leaves
\* the registry of every interpreter and the table of build-identifier
\* tokens as they were.
C11_RejectedTargetChangesNothing ==
    [][Completes("add_target") =>
           /\ last'.arg \in BadTargetNames =>
                  /\ last'.res = "raise"
                  /\ exc' \in {[kind |-> "InterpreterException",
                                msg |-> "Target name must not be empty."],
                               [kind |-> "InterpreterException",
                                msg |-> "Target name must not consist only of whitespace."],
                               [kind |-> "InvalidArguments", msg |-> "reserved prefix"],
                               [kind |-> "InvalidArguments", msg |-> "reserved name"]}
           /\ last'.res = "raise" =>
                  /\ exc' # NoExc
                  /\ RegistriesUnchanged
                  /\ target_guids' = target_guids]_vars

\* A whitespace-only name was rejected in a project that holds a target, and
\* the token table still holds exactly the tokens of the targets declared.
C11_Witness ==
    /\ last.op = "add_target"
    /\ last.arg = " "
    /\ last.res = "raise"
    /\ DOMAIN Self.targets # {}
    /\ DOMAIN target_guids = DOMAIN Self.targets

\* ------------------------------------------------- override table claims

\* Every entry of the override tables is the same after the step.
OverrideEntriesKept ==
    \A m \in Machines : \A k \in DOMAIN dependency_overrides[m] :
        /\ k \in DOMAIN dependency_overrides'[m]
        /\ dependency_overrides'[m][k] = dependency_overrides[m][k]

\* C12: no step of a dependency() call changes or removes an entry of a
\* per-machine override table, and the entry a completed dependency() call
\* adds is an implicit one, for the identifier of the call, holding the
\* dependency the call returned: an explicit override is never replaced.
C12_OverrideEntriesKept ==
    [][/\ OverrideEntriesKept
       /\ (Completes("dependency") /\ dependency_overrides' # dependency_overrides) =>
              /\ last'.res = "ret"
              /\ DepKey(last')[2] \notin DOMAIN dependency_overrides[last'.kw.native]
              /\ dependency_overrides' =
                     [dependency_overrides EXCEPT ![last'.kw.native] =
                          Put(@, DepKey(last')[2], [dep |-> last'.dep, explicit |-> FALSE])]
      ]_vars

\* A dependency() call returned the dependency of an explicit override, and
\* the entry is still the explicit one.
C12_Witness ==
    /\ last.op = "dependency"
    /\ last.res = "ret"
    /\ last.dep.found
    /\ DepKey(last)[2] \in DOMAIN dependency_overrides[last.kw.native]
    /\ dependency_overrides[last.kw.native][DepKey(last)[2]] =
           [dep |-> last.dep, explicit |-> TRUE]

\* The dependency() call that completes in this step was made while the
\* override table held, under its identifier, a found dependency whose
\* version fails the constraints of the call.
OverrideVersionFails ==
    /\ Completes("dependency")
    /\ ~last'.entered
    /\ DepKey(last')[2] \in DOMAIN dependency_overrides[DepKey(last')[1]]
    /\ dependency_overrides[DepKey(last')[1]][DepKey(last')[2]].dep.found
    /\ ~check_version(last'.kw.version,
                      dependency_overrides[DepKey(last')[1]][DepKey(last')[2]].dep.version)

\* The dependency() call that completes in this step was made while the
\* override table held, under its identifier, a found dependency whose
\* version satisfies the constraints of the call (an empty list included).
OverrideVersionFits ==
    /\ Completes("dependency")
    /\ ~last'.entered
    /\ DepKey(last')[2] \in DOMAIN dependency_overrides[DepKey(last')[1]]
    /\ dependency_overrides[DepKey(last')[1]][DepKey(last')[2]].dep.found
    /\ check_version(last'.kw.version,
                     dependency_overrides[DepKey(last')[1]][DepKey(last')[2]].dep.version)

\* C13 (as stated): a dependency() call whose identifier has an override with
\* a version that fails the requested constraints returns NotFound and
\* leaves the override table unchanged, and a call whose constraints the
\* override satisfies returns the overriding dependency.
C13_VersionFailYieldsNotFound ==
    [][/\ OverrideVersionFails =>
              /\ last'.res = "ret"
              /\ last'.dep = NotFoundDependency
              /\ dependency_overrides' = dependency_overrides
       /\ (OverrideVersionFits /\ last'.kw.required # "disabled"
           /\ ~FallbackInconsistent(subprojects, last',
                  dependency_overrides[DepKey(last')[1]][DepKey(last')[2]].dep)) =>
              /\ last'.res = "ret"
              /\ last'.dep = dependency_overrides[DepKey(last')[1]][DepKey(last')[2]].dep
      ]_vars

\* C13 (amended): such a call leaves the override table unchanged, probes
\* nothing and enters no subproject; it returns NotFound when it is optional
\* or its feature is disabled and fails with a dependency error when it is
\* required. A call whose constraints the override satisfies (an empty list
\* included) returns the overriding dependency, unless its feature is
\* disabled or it names the fallback variable of a configured subproject that
\* holds another object.
C13_VersionFailKeepsOverride ==
    [][/\ OverrideVersionFails =>
              /\ dependency_overrides' = dependency_overrides
              /\ probes' = probes
              /\ evals' = evals
              /\ IF last'.kw.required = "true"
                 THEN last'.res = "raise" /\ last'.exc.kind = "DependencyException"
                 ELSE last'.res = "ret" /\ last'.dep = NotFoundDependency
       /\ (OverrideVersionFits /\ last'.kw.required # "disabled"
           /\ ~FallbackInconsistent(subprojects, last',
                  dependency_overrides[DepKey(last')[1]][DepKey(last')[2]].dep)) =>
              /\ last'.res = "ret"
              /\ last'.dep = dependency_overrides[DepKey(last')[1]][DepKey(last')[2]].dep
              /\ dependency_overrides' = dependency_overrides
      ]_vars

\* An optional call with a constraint got NotFound while the override table
\* holds a found dependency under its identifier.
C13_Witness ==
    /\ last.op = "dependency"
    /\ ~last.entered
    /\ last.kw.required = "false"
    /\ last.kw.version # <<>>
    /\ last.res = "ret"
    /\ last.dep = NotFoundDependency
    /\ DepKey(last)[2] \in DOMAIN dependency_overrides[DepKey(last)[1]]
    /\ dependency_overrides[DepKey(last)[1]][DepKey(last)[2]].dep.found
    /\ ~check_version(last.kw.version,
                      dependency_overrides[DepKey(last)[1]][DepKey(last)[2]].dep.version)

\* The evaluation of interpreter f has declared a target of one of 'kinds'.
DeclaredHere(f, kinds) ==
    \E id \in DOMAIN f.targets :
        f.targets[id].subproject = f.name /\ f.targets[id].kind \in kinds

\* The step records no argument: the global list and the list of every
\* project hold what they held, and at most the empty entry of the running
\* project is new in the project table.
ArgumentsUnchanged ==
    /\ global_args' = global_args
    /\ DOMAIN project_args' \subseteq DOMAIN project_args \cup {Self.name}
    /\ \A p \in SubNames \cup {""} :
           get_project_args(project_args', p) = get_project_args(project_args, p)

\* The error add_arguments raises for frozen arguments.
FrozenError ==
    [kind |-> "InvalidCode",
     msg |-> "Tried to use it after a build target has been declared."]

SubprojectStarted == \E s \in SubNames : evals[s] > 0

\* C15: once the evaluation of a subproject has been started no step changes
\* the global argument list; every add_global_arguments call made after that,
\* by the invoking project or any other, and every add_global_arguments call
\* of a nested project raises an error.
C15_SubprojectFreezesGlobalArguments ==
    [][/\ SubprojectStarted => global_args' = global_args
       /\ (Completes("add_global_arguments") /\ (SubprojectStarted \/ Len(frames) > 1))
             => /\ last'.res = "raise"
                /\ exc' # NoExc
                /\ exc'.kind = "InvalidCode"
      ]_vars

\* The top-level project, which declared no build target, recorded a global
\* argument, evaluated a subproject and was then refused a global argument.
C15_Witness ==
    /\ last.op = "add_global_arguments"
    /\ last.res = "raise"
    /\ Len(frames) = 1
    /\ ~DeclaredHere(Self, Kinds)
    /\ SubprojectStarted
    /\ global_args # <<>>

\* ------------------------------------------------ subproject boundary claims

\* The subproject stacks of the interpreters of a run.
SubprojectStacks == {<<>>, <<"A">>, <<"B">>, <<"A", "B">>, <<"B", "A">>}

\* e is the error of the cycle check of do_subproject.
IsCycleError(e) ==
    /\ e.kind = "InvalidCode"
    /\ \E st \in SubprojectStacks, s \in SubNames : e.msg = CycleMessage(st, s)

\* An exception is leaving the nested interpreter of an optional request:
\* the next step is the handler of do_subproject.
OptionalSubprojectFails ==
    /\ phase = "run"
    /\ exc # NoExc
    /\ Len(frames) > 1
    /\ ~Self.pend.required

\* The handler stored a disabled handle recording the exception, and the
\* invoker goes on: func_subproject returns the handle, a dependency() that
\* fell back to the subproject returns a not-found dependency.
CaughtAndDisabled ==
    /\ exc' = NoExc
    /\ phase' = "run"
    /\ Len(frames') = Len(frames) - 1
    /\ Self.name \in DOMAIN subprojects'
    /\ ~subprojects'[Self.name].found
    /\ subprojects'[Self.name].exception = exc
    /\ last'.res = "ret"
    /\ last'.entered
    /\ last'.arg = IF Self.pend.kind = "subproject" THEN Self.name ELSE Self.pend.dname
    /\ IF Self.pend.kind = "subproject"
       THEN last'.op = "subproject" /\ last'.handle = subprojects'[Self.name]
       ELSE last'.op = "dependency" /\ last'.dep = NotFoundDependency

\* C16 (as stated): every error of the evaluation of an optional subproject
\* other than a cycle error is caught by do_subproject, which stores a
\* disabled handle recording the exception and returns it, and the invoking
\* project goes on with its next statement.
C16_OptionalErrorsCaught ==
    [][(OptionalSubprojectFails /\ ~IsCycleError(exc)) => CaughtAndDisabled]_vars

\* C16 (amended): every error of the evaluation of an optional subproject
\* other than an invalid-code error is caught in that way; an invalid-code
\* error, of which the cycle error is one, leaves do_subproject as it is and
\* nothing is stored for the subproject.
C16_OptionalErrorsCaughtUnlessInvalidCode ==
    [][OptionalSubprojectFails =>
           IF exc.kind # "InvalidCode"
           THEN CaughtAndDisabled
           ELSE /\ exc' = exc
                /\ subprojects' = subprojects
                /\ Len(frames') = Len(frames) - 1
                /\ last'.res = "raise"]_vars

\* An optional subproject() call returned a disabled handle that records the
\* error() of the nested build file, and the invoker is running.
C16_Witness ==
    /\ last.op = "subproject"
    /\ last.entered
    /\ last.kw.required = "false"
    /\ last.res = "ret"
    /\ ~last.handle.found
    /\ last.handle.exception = [kind |-> "InterpreterException", msg |-> "Problem encountered"]
    /\ phase = "run"
    /\ exc = NoExc

\* ------------------------------------------------- subproject version runs

\* The version the project() call of a subproject's build file declares:
\* A declares 1.2.0, B declares none.
DeclaredVersion(s) == IF s = "A" THEN "1.2.0" ELSE "undefined"

\* Version constraints of subproject() calls: none, one that 1.2.0 satisfies,
\* one that it fails.
WantedVersions == {<<>>, <<">=1.0">>, <<">=1.3">>}

\* A run of subproject() calls with version constraints.
NextSub ==
    \/ \E s \in SubNames, req \in {"true", "false"}, wanted \in WantedVersions :
           Subproject(s, req, wanted, TRUE, DeclaredVersion(s))
    \/ Finish
    \/ Unwind

SpecSub == Init /\ [][NextSub]_vars

\* C17 (as stated, the handle returned): a subproject() call with a version
\* constraint never returns a found handle of a subproject whose declared
\* version is 'undefined' or fails the constraint.
C17_NoReadyHandleOfWrongVersion ==
    [][(Completes("subproject") /\ last'.kw.version # <<>>
        /\ last'.res = "ret" /\ last'.handle.found)
          => /\ last'.handle.version # "undefined"
             /\ version_compare_many(last'.handle.version, last'.kw.version)]_vars

\* -------------------------------------------------- source references

\* Longest file or directory name of a reference, in path components.
MaxRefLen == 2

\* Components of the names the build files turn into references.
RefParts == PathParts \cup {"home", "src"}

\* The statements that turn a string into a source reference.
RefKinds ==
    {"build_target", "files", "include_directories", "custom_target",
     "configure_file", "install_data", "install_headers"}

\* The outcome of a statement on one string: the exception it raises, whether
\* it called the sandbox validator and whether it logged a warning.
RefResult(e, checked, warned) == [exc |-> e, checked |-> checked, warned |-> warned]

\* The exception of a sandbox violation; 'v' is the validator's verdict.
SandboxViolation(v) == [kind |-> "InterpreterException", msg |-> "Sandbox violation: " \o v]

\* Interpreter.source_strings_to_files on one string.
source_strings_to_files(root_subdir, subdir, fname) ==
    IF validate_within_subproject(root_subdir, subdir, fname) # "ok"
    THEN RefResult(SandboxViolation(validate_within_subproject(root_subdir, subdir, fname)),
                   TRUE, FALSE)
    ELSE RefResult(NoExc, TRUE, FALSE)

\* Interpreter.func_files on one string: File.from_source_file, nothing else.
func_files(root_subdir, subdir, fname) == RefResult(NoExc, FALSE, FALSE)

\* a.startswith(src_root) of build_incdir_object.
StartsWithSourceDir(fname) ==
    /\ fname.abs
    /\ Len(fname.parts) >= Len(SourceDir)
    /\ SubSeq(fname.parts, 1, Len(SourceDir)) = SourceDir

\* Interpreter.build_incdir_object on one string; 'isdir' tells whether the
\* directory exists in the source or the build tree.
build_incdir_object(root_subdir, subdir, fname, isdir) ==
    IF StartsWithSourceDir(fname)
    THEN RefResult([kind |-> "InvalidArguments",
                    msg |-> "Tried to form an absolute path to a source dir."],
                   FALSE, FALSE)
    ELSE IF ~isdir
    THEN RefResult([kind |-> "InvalidArguments", msg |-> "Include dir does not exist."],
                   TRUE, validate_within_subproject(root_subdir, subdir, fname) # "ok")
    ELSE RefResult(NoExc, TRUE,
                   validate_within_subproject(root_subdir, subdir, fname) # "ok")

\* _func_custom_target_impl on one string of 'input': a MesonException of
\* source_strings_to_files becomes a warning.
custom_target_input(root_subdir, subdir, fname) ==
    IF source_strings_to_files(root_subdir, subdir, fname).exc # NoExc
    THEN RefResult(NoExc, TRUE, TRUE)
    ELSE RefResult(NoExc, TRUE, FALSE)

\* The statement of kind 'how' on one string.
make_reference(how, root_subdir, subdir, fname, isdir) ==
    CASE how = "files" -> func_files(root_subdir, subdir, fname)
      [] how = "include_directories" -> build_incdir_object(root_subdir, subdir, fname, isdir)
      [] how = "custom_target" -> custom_target_input(root_subdir, subdir, fname)
      [] OTHER -> source_strings_to_files(root_subdir, subdir, fname)

\* The references: a statement of each kind, in the root project or in
\* subproject A, in the project's top directory or in its directory f, on a
\* relative or an absolute name.
RefInputs ==
    {[op |-> "reference", how |-> h, root_subdir |-> r, subdir |-> r \o d,
      fname |-> [abs |-> a, parts |-> p], isdir |-> i, done |-> FALSE,
      res |-> RefResult(NoExc, FALSE, FALSE)] :
        h \in RefKinds, r \in {<<>>, <<subproject_dir, "A">>}, d \in {<<>>, <<"f">>},
        a \in BOOLEAN, p \in SeqsUpTo(RefParts, MaxRefLen), i \in BOOLEAN}

InitRef == \E in \in RefInputs : InitRun([m \in Machines |-> EmptyDict], in)

\* A statement turns one string into a source reference.
MakeReference ==
    /\ io.op = "reference"
    /\ ~io.done
    /\ io' = [io EXCEPT !.done = TRUE,
                        !.res = make_reference(io.how, io.root_subdir, io.subdir,
                                               io.fname, io.isdir)]
    /\ UNCHANGED <<frames, subprojects, dependency_overrides, deps, wrap_mode, log_warnings_counter,
                   force_fallback_for, global_args, project_args, target_guids, exc,
                   phase, last, evals, probes, provided, steps>>

NextRef == MakeReference

SpecRef == InitRef /\ [][NextRef]_vars

\* C18 (as stated, the check): every statement that turns a string into a
\* source reference hands it to the sandbox validator, so no string the
\* validator rejects becomes a reference unchecked.
C18_EveryReferenceValidated ==
    (io.op = "reference" /\ io.done
     /\ validate_within_subproject(io.root_subdir, io.subdir, io.fname) # "ok")
        => io.res.checked \/ io.res.exc # NoExc

\* C19: while a cycle error is under way every step hands it, unchanged, to
\* the enclosing do_subproject call, whether that call is optional or not,
\* and stores nothing; at the top-level project the run is aborted; and no
\* handle ever stored for a subproject records a cycle error.
C19_CycleErrorAbortsRun ==
    [][/\ (phase = "run" /\ IsCycleError(exc)) =>
              /\ exc' = exc
              /\ subprojects' = subprojects
              /\ IF Len(frames) = 1
                 THEN phase' = "aborted" /\ frames' = frames
                 ELSE /\ phase' = "run"
                      /\ Len(frames') = Len(frames) - 1
                      /\ last'.res = "raise"
                      /\ last'.exc = exc
       /\ \A s \in DOMAIN subprojects' : ~IsCycleError(subprojects'[s].exception)
      ]_vars

\* The run was aborted by the cycle error A => B => A, which B raised inside
\* A, and A had been requested by an optional subproject() call.
C19_Witness ==
    /\ phase = "aborted"
    /\ exc = [kind |-> "InvalidCode", msg |-> CycleMessage(<<"A", "B">>, "A")]
    /\ last.op = "subproject"
    /\ last.entered
    /\ last.arg = "A"
    /\ last.kw.required = "false"
    /\ last.exc = exc
    /\ "A" \notin DOMAIN subprojects
    /\ "B" \notin DOMAIN subprojects

\* ------------------------------------------------------------ merge claims

\* do_subproject returns a Ready handle in this step: the build file of the
\* nested interpreter ended and a found handle is stored under its name.
ReturnsReady ==
    /\ Len(frames) > 1
    /\ Len(frames') = Len(frames) - 1
    /\ exc = NoExc
    /\ Self.name \in DOMAIN subprojects'
    /\ subprojects'[Self.name].found
    /\ subprojects'[Self.name].serial = steps'

C21_CacheHoldsProbeResultsOnly ==
    [][/\ deps' # deps =>
              /\ Completes("dependency")
              /\ ~last'.entered
              /\ last'.probed
              /\ probes' = probes + 1
              /\ last'.res = "ret"
              /\ \E v \in ProbeFinds \ {"none"} : last'.dep = ExternalDep(v, steps')
              /\ deps' = [deps EXCEPT ![DepKey(last')[1]] =
                              Put(@, DepKey(last')[2], last'.dep)]
       /\ \A m \in Machines : \A k \in DOMAIN deps'[m] :
              deps'[m][k].found /\ deps'[m][k].id = "system"
      ]_vars

\* A dependency() call returned the object its fallback subproject declared,
\* after probing, and the cache holds nothing under its identifier.
C21_Witness ==
    /\ last.op = "dependency"
    /\ last.entered
    /\ last.probed
    /\ last.res = "ret"
    /\ last.dep.found
    /\ last.dep.id = "declared:A"
    /\ DepKey(last)[2] \notin DOMAIN deps[DepKey(last)[1]]

\* ------------------------------------------------------- fallback runs

\* The values of the option wrap_mode that decide about fallbacks.
WrapModes == {"default", "forcefallback", "nofallback"}

\* The values of the option force_fallback_for: nothing, the dependency, the
\* subproject.
ForceFallbackFor == {{}, {"z"}, {"A"}}

\* Keyword arguments of the dependency() calls of these runs: the fallback
\* is named by the call or left to the wrap resolver.
FbKwargs ==
    [required : {"true", "false"}, version : {<<>>}, native : {"host"},
     modules : {""}, fallback : {<<>>, <<"A", "v">>}, allow_fallback : {"none"}]

\* A first configuration under each combination of the two options.
InitFb ==
    \E wm \in WrapModes, ff \in ForceFallbackFor :
        InitWith([m \in Machines |-> EmptyDict], NoIO, wm, ff)

\* A run of dependency() calls with a fallback, named or implicit (the wrap
\* resolver names A as the provider of z), of subproject() calls that
\* resolve the fallback subproject beforehand, and of the statements of A.
NextFb ==
    \/ \E name \in DepNames, kw \in FbKwargs, found \in ProbeFinds :
           Dependency(name, kw, IF kw.fallback = <<>> THEN <<"A", "v">> ELSE <<>>,
                      found, TRUE, "1.2.0")
    \/ \E req \in {"true", "false"} : Subproject("A", req, <<>>, TRUE, "1.2.0")
    \/ Assign("v", DeclaredDep(Self.name, "1.2.0", steps + 1))
    \/ Raise("InterpreterException")
    \/ Finish
    \/ Unwind

SpecFb == InitFb /\ [][NextFb]_vars

\* The step is the call of dependency() that enters its fallback subproject.
EntersFallback ==
    /\ Len(frames') = Len(frames) + 1
    /\ frames'[Len(frames')].pend.kind = "dependency"

\* The step is a call of dependency(): it returns or raises at once, or it
\* enters the fallback subproject.
DependencyCalled == (Completes("dependency") /\ ~last'.entered) \/ EntersFallback

\* The name and the keywords of the dependency() call of the step, the
\* fallback it works with included.
CalledName == IF EntersFallback THEN frames'[Len(frames')].pend.dname ELSE last'.arg
CalledKw == IF EntersFallback THEN frames'[Len(frames')].pend.kw ELSE last'.kw

\* The options force the fallback of the dependency 'name' to subproject 'sub'.
FallbackForced(name, sub) ==
    \/ wrap_mode = "forcefallback"
    \/ name \in force_fallback_for
    \/ sub \in force_fallback_for

\* The step is a call of dependency() with a fallback whose feature is not
\* disabled and for which neither the override table nor the cache holds a
\* matching entry.
FallbackRequested ==
    /\ DependencyCalled
    /\ CalledKw.fallback # <<>>
    /\ CalledKw.required # "disabled"
    /\ find_cached_dep(dependency_overrides, deps, CalledName, CalledKw) = NoDep

\* C22 (as stated): such a call probes only when the fallback subproject is
\* not resolved as found and the fallback is not forced; it enters the
\* subproject only after its probe found nothing or when the fallback is
\* forced; and a resolved fallback subproject answers without a probe.
C22_ProbeBeforeFallback ==
    [][FallbackRequested =>
           LET sub == fallback_subp(CalledKw.fallback)
           IN  /\ probes' # probes =>
                      /\ ~get_subproject(subprojects, sub)
                      /\ ~FallbackForced(CalledName, sub)
               /\ EntersFallback =>
                      \/ probes' = probes + 1
                      \/ FallbackForced(CalledName, sub)
               /\ get_subproject(subprojects, sub) =>
                      /\ probes' = probes
                      /\ ~EntersFallback]_vars

\* C22 (amended): such a call probes exactly when the dependency has a name,
\* the fallback subproject is not resolved as found and the fallback is not
\* forced; it enters the subproject only after its probe found nothing, or
\* when the fallback is forced, or when the dependency has no name, and
\* never under wrap mode nofallback unless force_fallback_for names the
\* dependency or the subproject; and a resolved fallback subproject answers
\* without a probe and without being entered again.
C22_ProbeUnlessForcedOrAnonymous ==
    [][FallbackRequested =>
           LET sub == fallback_subp(CalledKw.fallback)
           IN  /\ probes' # probes <=>
                      /\ CalledName # ""
                      /\ ~get_subproject(subprojects, sub)
                      /\ ~FallbackForced(CalledName, sub)
               /\ probes' \in {probes, probes + 1}
               /\ EntersFallback =>
                      /\ \/ probes' = probes + 1
                         \/ FallbackForced(CalledName, sub)
                         \/ CalledName = ""
                      /\ \/ wrap_mode # "nofallback"
                         \/ CalledName \in force_fallback_for
                         \/ sub \in force_fallback_for
                      /\ deps' = deps
               /\ get_subproject(subprojects, sub) =>
                      /\ probes' = probes
                      /\ ~EntersFallback
                      /\ evals' = evals]_vars

\* Forced: the fallback subproject of z was entered without a probe because
\* force_fallback_for names it, and it provided the dependency.
C22_Witness ==
    /\ force_fallback_for = {"A"}
    /\ wrap_mode = "default"
    /\ last.op = "dependency"
    /\ last.arg = "z"
    /\ last.entered
    /\ ~last.probed
    /\ probes = 0
    /\ last.res = "ret"
    /\ last.dep.found

\* ------------------------------------------------ subproject resolution claims

\* The error of the source resolver.
ResolveError == [kind |-> "WrapException", msg |-> "resolve"]

\* C23: a subproject() call that reaches the source resolver (its feature is
\* not disabled, the name is neither on the stack nor in the cache) and whose
\* subproject the resolver cannot locate starts no nested evaluation and
\* leaves every interpreter, the frozen flags included, as it was; an
\* optional call stores and returns a not-found handle recording the
\* resolver's error and raises nothing, a required call raises that error
\* and stores nothing.
C23_UnresolvedSubproject ==
    [][\A s \in SubNames, req \in {"true", "false"} :
           (/\ Subproject(s, req, <<>>, FALSE, "1.2.0")
            /\ ~InList(s, Self.subproject_stack)
            /\ s \notin DOMAIN subprojects)
             => /\ frames' = frames
                /\ evals' = evals
                /\ Completes("subproject")
                /\ ~last'.entered
                /\ IF req = "false"
                   THEN /\ exc' = NoExc
                        /\ last'.res = "ret"
                        /\ last'.handle = DisabledHolder(FALSE, ResolveError, steps')
                        /\ subprojects' = Put(subprojects, s, last'.handle)
                   ELSE /\ exc' = ResolveError
                        /\ last'.res = "raise"
                        /\ subprojects' = subprojects]_vars

\* An optional subproject() call of the top-level project returned the handle
\* that records the resolver's error, and the global arguments of the
\* project are not frozen.
C23_Witness ==
    /\ last.op = "subproject"
    /\ ~last.entered
    /\ last.kw.required = "false"
    /\ last.res = "ret"
    /\ ~last.handle.found
    /\ last.handle.exception = ResolveError
    /\ last.arg \in DOMAIN subprojects
    /\ subprojects[last.arg] = last.handle
    /\ Len(frames) = 1
    /\ ~Self.global_args_frozen
    /\ exc = NoExc

\* The names of the subprojects under evaluation, outermost first.
UnderEvaluation == [i \in 1..(Len(frames) - 1) |-> frames[i + 1].name]

\* No name occurs twice in the sequence.
NoRepeats(seq) == \A i, j \in 1..Len(seq) : seq[i] = seq[j] => i = j

\* The stacks of the interpreters form one chain.
StacksChained ==
    /\ frames[1].subproject_stack = <<>>
    /\ \A i \in 2..Len(frames) :
           frames[i].subproject_stack =
               Append(frames[i - 1].subproject_stack, frames[i].name)
    /\ \A i \in 1..Len(frames) : NoRepeats(frames[i].subproject_stack)
    /\ Self.subproject_stack = UnderEvaluation

\* An interpreter that waits for a nested evaluation evaluates nothing: its
\* state is unchanged while it waits, every completed statement belongs to
\* the innermost interpreter, and the nested interpreter leaves only one at a
\* time, with the call that entered it completing by a stored handle (found
\* or not) or by an exception.
InvokerWaits ==
    /\ \A i \in 1..Len(frames) :
           (i < Len(frames) /\ i < Len(frames')) => frames'[i] = frames[i]
    /\ last' # last =>
           /\ last'.stack = frames'[Len(frames')].subproject_stack
           /\ last'.proj = frames'[Len(frames')].name
    /\ Len(frames') < Len(frames) =>
           /\ Len(frames') = Len(frames) - 1
           /\ last' # last
           /\ last'.entered
           /\ last'.seq = steps + 1
           /\ \/ exc' # NoExc
              \/ /\ Self.name \in DOMAIN subprojects'
                 /\ subprojects'[Self.name].serial = steps + 1

\* C24: at every point of a run the subprojects under evaluation are the
\* subproject stack of the running interpreter, no stack holds a name twice,
\* the stack of a nested interpreter is the stack of its invoker followed by
\* its own name, and an invoker evaluates nothing until the nested evaluation
\* has ended with a handle or an exception.
C24_OneChainOfSubprojects ==
    []StacksChained /\ [][InvokerWaits]_vars

\* Subproject B is under evaluation inside subproject A, and a call of B has
\* completed there.
C24_Witness ==
    /\ Len(frames) = 3
    /\ Self.subproject_stack = <<"A", "B">>
    /\ last.proj = "B"
    /\ last.stack = <<"A", "B">>

\* The call that completes was answered from the subproject cache.
ServedFromCache ==
    /\ Completes("subproject")
    /\ ~last'.entered
    /\ last'.arg \in DOMAIN subprojects
    /\ last'.handle = subprojects[last'.arg]

\* The subproject the completing call names declares a version that
\* satisfies the constraint of the call.
ConstraintSatisfied ==
    /\ DeclaredVersion(last'.arg) # "undefined"
    /\ version_compare_many(DeclaredVersion(last'.arg), last'.kw.version)

\* C25 (as stated): every subproject() call with a version constraint that
\* returns a found handle, from a fresh evaluation or from the subproject
\* cache, names a subproject whose declared version satisfies the constraint.
C25_FoundHandleSatisfiesConstraint ==
    [][(/\ Completes("subproject")
        /\ last'.entered \/ ServedFromCache
        /\ last'.kw.version # <<>>
        /\ last'.res = "ret"
        /\ last'.handle.found)
          => ConstraintSatisfied]_vars

\* The part of C25 the code keeps: a call that evaluated the subproject
\* itself returns a found handle only if the constraint is satisfied.
C25_FreshEvaluationSatisfiesConstraint ==
    [][(/\ Completes("subproject")
        /\ last'.entered
        /\ last'.kw.version # <<>>
        /\ last'.res = "ret"
        /\ last'.handle.found)
          => ConstraintSatisfied]_vars

\* ------------------------------------------------------- reconfiguration

\* A later evaluation of the same configuration: a new root interpreter over
\* a new build (registry, subprojects, overrides and arguments are empty)
\* and the coredata of the evaluation before it (dependency cache, token
\* table, options).
Reconfigure ==
    /\ phase \in {"done", "aborted"}
    /\ steps < MaxSteps
    /\ frames' = <<NewInterpreter("", <<>>, EmptyDict, "1.0", NoPend)>>
    /\ subprojects' = EmptyDict
    /\ dependency_overrides' = [m \in Machines |-> EmptyDict]
    /\ global_args' = <<>>
    /\ project_args' = EmptyDict
    /\ exc' = NoExc
    /\ phase' = "run"
    /\ last' = NoLast
    /\ provided' = EmptyDict
    /\ UNCHANGED <<deps, wrap_mode, log_warnings_counter, force_fallback_for, target_guids, evals, probes,
                   steps, io>>

\* Evaluations of one configuration, one after the other, of a project that
\* declares targets.
NextCfg ==
    \/ \E name \in {"t", "u"}, k \in Kinds : AddTarget(name, k)
    \/ AddTarget("all", "exe")
    \/ CustomTarget("t")
    \/ Raise("InterpreterException")
    \/ Finish
    \/ Unwind
    \/ Reconfigure

SpecCfg == Init /\ [][NextCfg]_vars

\* The identifier of the declaration the completed add_target call made.
DeclaredId(l) == get_id(l.arg, l.kind)

\* C26: the token table changes only when add_target accepts a declaration;
\* it then holds a token for the identifier, a new one if the identifier had
\* none; and no step, a later evaluation over a new registry included,
\* changes or removes the token of an identifier.
C26_TokenAssignedOnce ==
    [][/\ \A id \in DOMAIN target_guids :
              /\ id \in DOMAIN target_guids'
              /\ target_guids'[id] = target_guids[id]
       /\ target_guids' # target_guids =>
              Completes("add_target") /\ last'.res = "ret"
       /\ (Completes("add_target") /\ last'.res = "ret") =>
              /\ DeclaredId(last') \in DOMAIN target_guids'
              /\ DeclaredId(last') \notin DOMAIN target_guids =>
                     target_guids'[DeclaredId(last')] = steps']_vars

\* A later evaluation has registered, in its new registry, an identifier
\* that an evaluation before it registered: the declaration is newer than
\* the token.
C26_Witness ==
    /\ last.op = "add_target"
    /\ last.res = "ret"
    /\ Len(frames) = 1
    /\ DeclaredId(last) \in DOMAIN Self.targets
    /\ Self.targets[DeclaredId(last)].serial = last.seq
    /\ DeclaredId(last) \in DOMAIN target_guids
    /\ target_guids[DeclaredId(last)] < last.seq

\* ------------------------------------------------------- subdirectories

\* The path a subdir() argument denotes, as components: '' is the empty
\* path, '/x' an absolute one.
ArgPath(arg) ==
    IF arg = "" THEN <<>>
    ELSE IF arg = "/x" THEN <<"/", "x">>
    ELSE <<arg>>

\* os.path.isabs on path components
IsAbsPath(p) == p # <<>> /\ p[1] = "/"

\* os.path.join(a, b): b if it is absolute, else a and b with one separator
\* between them; a trailing separator is a last component ''.
os_path_join(a, b) ==
    IF IsAbsPath(b) THEN b
    ELSE IF a = <<>> THEN b
    ELSE IF b = <<>> THEN (IF a[Len(a)] = "" THEN a ELSE Append(a, ""))
    ELSE (IF a[Len(a)] = "" THEN SubSeq(a, 1, Len(a) - 1) ELSE a) \o b

\* os.path.realpath below the source root: '' and '.' components vanish and
\* the symbolic link s stands for the directory a.
realpath(p) ==
    LET q == SelectSeq(p, LAMBDA c : c \notin {"", "."})
    IN  [i \in 1..Len(q) |-> IF q[i] = "s" THEN "a" ELSE q[i]]

\* The directories of the source tree that hold a build file: the top
\* directory of every project and its directories a, b and a/b.
HasBuildFile(dir) ==
    \E base \in {<<>>} \cup {<<"subprojects", n>> : n \in SubNames},
       t \in {<<>>, <<"a">>, <<"b">>, <<"a", "b">>} : dir = base \o t

\* The loop of func_subdir over the if_found objects: "raise" at an object
\* without found method, "skip" at one that is not found, else "go".
RECURSIVE if_found_outcome(_)
if_found_outcome(objs) ==
    IF objs = <<>> THEN "go"
    ELSE IF objs[1] = "nomethod" THEN "raise"
    ELSE IF objs[1] = "notfound" THEN "skip"
    ELSE if_found_outcome(Tail(objs))

\* The result of a func_subdir call up to the evaluation of the build file.
DirResult(tag, kind, msg, self) ==
    [tag |-> tag, exc |-> IF tag = "raise" THEN [kind |-> kind, msg |-> msg] ELSE NoExc,
     self |-> self]

\* A visited test that never finds the build file.
is_processed_never(self, build_file) == FALSE

\* build_file in self.processed_buildfiles
is_processed(self, build_file) == build_file \in self.processed_buildfiles

\* func_project evaluated again in a project whose project() call has been
\* made: self.subproject is in self.build.projects.
second_project_call == [kind |-> "InvalidCode", msg |-> "Second call to project()."]

\* func_subdir up to the evaluation of the code block, and the first
\* statement of the build file when that is the project's own build file.
func_subdir(self, arg, if_found) ==
    LET prev_subdir == self.subdir
        subdir == os_path_join(prev_subdir, ArgPath(arg))
        build_file == realpath(subdir)
        entered == [self EXCEPT
                       !.processed_buildfiles = @ \cup {build_file},
                       !.subdir = subdir,
                       !.build_def_files = Append(@, os_path_join(subdir, <<"meson.build">>))]
    IN  IF arg = ".."
        THEN DirResult("raise", "InvalidArguments", "Subdir contains ..", self)
        ELSE IF self.subdir = <<>> /\ arg = "subprojects"
        THEN DirResult("raise", "InvalidArguments", "Must not go into subprojects dir", self)
        ELSE IF self.subdir = <<>> /\ StartsWithMeson(arg)
        THEN DirResult("raise", "InvalidArguments", "reserved prefix", self)
        ELSE IF if_found_outcome(if_found) = "raise"
        THEN DirResult("raise", "InterpreterException", "no found method", self)
        ELSE IF if_found_outcome(if_found) = "skip"
        THEN DirResult("skip", "", "", self)
        ELSE IF IsAbsPath(subdir)
        THEN DirResult("raise", "InvalidArguments", "must be a relative path", self)
        ELSE IF is_processed(self, build_file)
        THEN DirResult("raise", "InvalidArguments", "already been visited", self)
        ELSE IF ~HasBuildFile(build_file)
        THEN DirResult("raise", "InterpreterException", "Non-existent build file",
                       [entered EXCEPT !.subdir = prev_subdir])
        ELSE IF build_file = project_subdir(self.name)
        THEN DirResult("raise", second_project_call.kind, second_project_call.msg,
                       [entered EXCEPT
                           !.evaluated = Append(@, build_file),
                           !.subdir_calls = Append(@, [prev_subdir |-> prev_subdir,
                                                       arg |-> arg])])
        ELSE DirResult("enter", "", "",
                       [entered EXCEPT
                           !.evaluated = Append(@, build_file),
                           !.subdir_calls = Append(@, [prev_subdir |-> prev_subdir,
                                                       arg |-> arg])])

\* The func_subdir call that is evaluating the current build file.
EnclosingSubdir(self) == self.subdir_calls[Len(self.subdir_calls)]

\* A handler of the early-exit signal that leaves every subdir() call under
\* way, not only the enclosing one.
subdir_returns_outermost(self) ==
    [self EXCEPT !.subdir = self.subdir_calls[1].prev_subdir,
                 !.subdir_calls = <<>>]

\* func_subdir after the evaluation of the code block, ended by its last
\* statement or by SubdirDoneRequest: self.subdir = prev_subdir.
subdir_returns(self) ==
    [self EXCEPT !.subdir = EnclosingSubdir(self).prev_subdir,
                 !.subdir_calls = SubSeq(@, 1, Len(@) - 1)]

\* A path names a regular file: a build file, the file x.in that every
\* directory holds, or the program cat.
IsRegularFile(p) ==
    /\ p # <<>>
    /\ \/ p = <<"/", "cat">>
       \/ p[Len(p)] = "x.in"
       \/ p[Len(p)] = "meson.build" /\ HasBuildFile(SubSeq(p, 1, Len(p) - 1))

\* An add_build_def_file that appends without looking at the list.
add_build_def_file_unchecked(self, f) ==
    IF ~IsRegularFile(realpath(f)) THEN self
    ELSE [self EXCEPT !.build_def_files = Append(@, realpath(f))]

\* Interpreter.add_build_def_file for a file name: a regular file is
\* normalised (relative to the source directory when inside it) and appended
\* unless the list holds it.
add_build_def_file(self, f) ==
    IF ~IsRegularFile(realpath(f)) THEN self
    ELSE IF InList(realpath(f), self.build_def_files) THEN self
    ELSE [self EXCEPT !.build_def_files = Append(@, realpath(f))]

\* run_command_impl: the program and every argument become build
\* definition files.
run_command_impl(self, a) ==
    add_build_def_file(add_build_def_file(self, <<"/", "cat">>),
                       os_path_join(self.subdir, a))

\* subdir(arg, if_found: if_found)
Subdir(arg, if_found) ==
    /\ Running
    /\ \E r \in {func_subdir(Self, arg, if_found)} :
       /\ steps' = steps + 1
       /\ frames' = [frames EXCEPT ![Len(frames)] = r.self]
       /\ exc' = r.exc
       /\ last' = IF r.tag = "enter" THEN last
                  ELSE [Done("subdir", arg, IF r.tag = "raise" THEN "raise" ELSE "ret",
                             NoDep, NoHandle, r.exc, NoKw, FALSE, FALSE, steps + 1)
                        EXCEPT !.kind = r.tag]
    /\ UNCHANGED <<subprojects, dependency_overrides, deps, wrap_mode, log_warnings_counter,
                   force_fallback_for, global_args, project_args, target_guids, phase,
                   evals, probes, provided, io>>

\* The build file of a subdirectory ends: func_subdir returns.
SubdirReturn ==
    /\ Running
    /\ Self.subdir_calls # <<>>
    /\ steps' = steps + 1
    /\ frames' = [frames EXCEPT ![Len(frames)] = subdir_returns(Self)]
    /\ last' = [Done("subdir", EnclosingSubdir(Self).arg, "ret", NoDep, NoHandle, NoExc,
                     NoKw, FALSE, TRUE, steps + 1)
                EXCEPT !.kind = "end"]
    /\ UNCHANGED <<subprojects, dependency_overrides, deps, wrap_mode, log_warnings_counter,
                   force_fallback_for, global_args, project_args, target_guids, exc,
                   phase, evals, probes, provided, io>>

\* subdir_done() in the build file of a subdirectory: func_subdir_done
\* raises SubdirDoneRequest and the enclosing func_subdir catches it.
SubdirDone ==
    /\ Running
    /\ Self.subdir_calls # <<>>
    /\ steps' = steps + 1
    /\ frames' = [frames EXCEPT ![Len(frames)] = subdir_returns(Self)]
    /\ last' = [Done("subdir_done", EnclosingSubdir(Self).arg, "ret", NoDep, NoHandle,
                     NoExc, NoKw, FALSE, TRUE, steps + 1)
                EXCEPT !.kind = "done"]
    /\ UNCHANGED <<subprojects, dependency_overrides, deps, wrap_mode, log_warnings_counter,
                   force_fallback_for, global_args, project_args, target_guids, exc,
                   phase, evals, probes, provided, io>>

\* run_command('cat', a)
RunCommand(a) ==
    /\ Running
    /\ steps' = steps + 1
    /\ frames' = [frames EXCEPT ![Len(frames)] = run_command_impl(Self, a)]
    /\ last' = Done("run_command", "", "ret", NoDep, NoHandle, NoExc, NoKw, FALSE,
                    FALSE, steps + 1)
    /\ UNCHANGED <<subprojects, dependency_overrides, deps, wrap_mode, log_warnings_counter,
                   force_fallback_for, global_args, project_args, target_guids, exc,
                   phase, evals, probes, provided, io>>

\* Arguments of subdir() calls: directories with a build file (a, b, the link
\* s to a), one without (n), the project's own directory ('' and '.'), and
\* the names func_subdir rejects.
SubdirArgs == {"a", "b", "s", "n", "", ".", "..", "subprojects", "meson-x", "/x"}

\* The if_found objects of subdir() calls.
IfFounds ==
    {<<"found">>, <<"notfound">>, <<"nomethod">>, <<"found", "notfound">>,
     <<"notfound", "nomethod">>}

\* Arguments of run_command: files and a string that names none.
RunArgs == {<<"meson.build">>, <<"a", "meson.build">>, <<"x.in">>, <<"-n">>}

\* A run of projects that enter subdirectories.
NextDir ==
    \/ \E arg \in SubdirArgs : Subdir(arg, <<>>)
    \/ \E f \in IfFounds : Subdir("a", f)
    \/ SubdirReturn
    \/ SubdirDone
    \/ \E a \in RunArgs : RunCommand(a)
    \/ \E req \in {"true", "false"} : Subproject("A", req, <<>>, TRUE, "1.2.0")
    \/ AddTarget("t", "exe")
    \/ Finish
    \/ Unwind

SpecDir == Init /\ [][NextDir]_vars

\* The subdir() calls under way in an interpreter form one chain from the
\* directory of the project to the current subdirectory: each call was made
\* in the directory the call before it entered.
DirsChained(f) ==
    LET calls == f.subdir_calls
        dir(i) == os_path_join(calls[i].prev_subdir, ArgPath(calls[i].arg))
    IN  /\ calls # <<>> => calls[1].prev_subdir = project_subdir(f.name)
        /\ \A i \in 2..Len(calls) : calls[i].prev_subdir = dir(i - 1)
        /\ f.subdir = IF calls = <<>> THEN project_subdir(f.name) ELSE dir(Len(calls))

\* A subdir_done() step: nothing is raised, the run goes on, and of the whole
\* state only the running interpreter changes, which leaves the enclosing
\* subdir() call alone and is back in the directory that call was made in.
SubdirDoneEndsOneFile ==
    Completes("subdir_done") =>
        /\ exc' = NoExc
        /\ phase' = "run"
        /\ Len(frames') = Len(frames)
        /\ \A i \in 1..(Len(frames) - 1) : frames'[i] = frames[i]
        /\ frames'[Len(frames)] =
               [Self EXCEPT !.subdir = EnclosingSubdir(Self).prev_subdir,
                            !.subdir_calls = SubSeq(@, 1, Len(@) - 1)]
        /\ UNCHANGED <<subprojects, dependency_overrides, deps, global_args,
                       project_args, target_guids, evals>>

\* C27: subdir_done() in the build file of a subdirectory ends that file
\* only: the enclosing subdir() call returns without an exception, the
\* current subdirectory is again the one the call was made in, the subdir()
\* calls around it stay under way, and the run goes on in the invoking file.
C27_SubdirDoneEndsOneFile ==
    [](\A i \in 1..Len(frames) : DirsChained(frames[i]))
        /\ [][SubdirDoneEndsOneFile]_vars

\* subdir_done() was evaluated in the build file of a/b, entered from the
\* build file of a: the run goes on in a, whose subdir() call is under way.
C27_Witness ==
    /\ last.op = "subdir_done"
    /\ last.arg = "b"
    /\ Self.subdir = <<"a">>
    /\ Len(Self.subdir_calls) = 1
    /\ Self.evaluated = <<<<>>, <<"a">>, <<"a", "b">>>>
    /\ exc = NoExc
    /\ phase = "run"

\* The build file a subdir(arg) call of the running interpreter resolves to,
\* as the directory that holds it.
ResolvedBuildFile(arg) == realpath(os_path_join(Self.subdir, ArgPath(arg)))

\* The step is a subdir(arg) call that gets as far as the build file: the
\* argument is accepted and the if_found objects are all found.
ReachesBuildFile(arg, if_found) ==
    /\ Subdir(arg, if_found)
    /\ arg # ".."
    /\ ~(Self.subdir = <<>> /\ (arg = "subprojects" \/ StartsWithMeson(arg)))
    /\ if_found_outcome(if_found) = "go"
    /\ ~IsAbsPath(ArgPath(arg))

\* A subdir() call that resolves to a build file whose evaluation has
\* started raises an exception.
VisitedFileRejected ==
    \A arg \in SubdirArgs, f \in IfFounds \cup {<<>>} :
        (ReachesBuildFile(arg, f) /\ InList(ResolvedBuildFile(arg), Self.evaluated))
            => exc' # NoExc

\* A subdir() call skipped at an if_found object that is not found leaves
\* every interpreter as it was and raises nothing.
SkippedSubdirChangesNothing ==
    \A arg \in SubdirArgs, f \in IfFounds :
        (Subdir(arg, f) /\ Completes("subdir") /\ last'.kind = "skip")
            => /\ frames' = frames
               /\ exc' = NoExc
               /\ UNCHANGED <<subprojects, dependency_overrides, deps, global_args,
                              project_args, target_guids, phase>>

\* C28 (as stated): within one project evaluation no build file is
\* evaluated twice, a subdir() call that resolves to a build file already
\* visited raises an exception, and a subdir() call skipped because an
\* if_found object is not found changes no state.
C28_NoBuildFileEvaluatedTwice ==
    [](\A i \in 1..Len(frames) : NoRepeats(frames[i].evaluated))
        /\ [][VisitedFileRejected /\ SkippedSubdirChangesNothing]_vars

\* The part of C28 the code keeps: only the project's own build file, which
\* is never among the processed build files, is evaluated again, and that
\* evaluation ends at its project() call; every other build file is
\* evaluated at most once.
C28_OnlyProjectFileEvaluatedAgain ==
    [](\A i \in 1..Len(frames) :
          LET ev == frames[i].evaluated
          IN  /\ \A j, k \in 1..Len(ev) :
                     (ev[j] = ev[k] /\ j # k) => ev[j] = project_subdir(frames[i].name)
              /\ (~NoRepeats(ev) /\ i = Len(frames)) =>
                     exc = second_project_call \/ phase = "aborted")
        /\ [][VisitedFileRejected /\ SkippedSubdirChangesNothing]_vars

\* The build definition files of an interpreter hold no path twice.
NoDuplicateBuildDefFiles(f) == NoRepeats(f.build_def_files)

\* A step that returns from a subproject with a found handle leaves the
\* invoker with every path of its list before the call and every path of
\* the nested project's list.
MergeKeepsBothLists ==
    (/\ Len(frames') = Len(frames) - 1
     /\ last' # last
     /\ last'.entered
     /\ Self.name \in DOMAIN subprojects'
     /\ subprojects'[Self.name].found
     /\ subprojects'[Self.name].serial = steps')
        => Range(frames[Len(frames) - 1].build_def_files)
               \cup Range(Self.build_def_files)
                   \subseteq Range(frames'[Len(frames')].build_def_files)

\* C29 (as stated): the list of build definition files of an interpreter
\* never holds a path twice, and after a subproject is merged the list of
\* the invoker holds every path it held before and every path of the
\* nested project's list.
C29_BuildDefFilesAreASet ==
    [](\A i \in 1..Len(frames) : NoDuplicateBuildDefFiles(frames[i]))
        /\ [][MergeKeepsBothLists]_vars

\* The part of C29 the code keeps: the merge keeps both lists and leaves the
\* invoker's list without duplicates.
C29_MergeKeepsBothLists ==
    [][MergeKeepsBothLists
       /\ (Len(frames') = Len(frames) - 1 /\ subprojects' # subprojects
           /\ Self.name \in DOMAIN subprojects' /\ subprojects'[Self.name].found
           /\ subprojects'[Self.name].serial = steps')
              => NoDuplicateBuildDefFiles(frames'[Len(frames')])]_vars

\* The merged list of the top-level project holds the build file of a
\* subdirectory of subproject A.
C29_MergeWitness ==
    /\ Len(frames) = 1
    /\ last.op = "subproject"
    /\ last.entered
    /\ last.handle.found
    /\ InList(<<"subprojects", "A", "a", "meson.build">>, Self.build_def_files)
    /\ InList(<<"meson.build">>, Self.build_def_files)

\* ------------------------------------------------ fallback variable claims

\* The dependency() call that completes was answered from the fallback
\* subproject it names, which was configured before the call and defines no
\* variable of the name asked for; neither an override nor the cache
\* answered the call.
MissingVariableOfResolved ==
    /\ Completes("dependency")
    /\ ~last'.entered
    /\ last'.kw.fallback # <<>>
    /\ last'.kw.required \in {"true", "false"}
    /\ fallback_subp(last'.kw.fallback) \in DOMAIN subprojects
    /\ subprojects[fallback_subp(last'.kw.fallback)].found
    /\ subprojects[fallback_subp(last'.kw.fallback)].vars[fallback_var(last'.kw.fallback)]
           = NoDep
    /\ find_cached_dep(dependency_overrides, deps, last'.arg, last'.kw) = NoDep

\* The dependency() call that completes evaluated its fallback subproject,
\* whose build file ends without an exception and without the variable.
MissingVariableOfEvaluated ==
    /\ Completes("dependency")
    /\ last'.entered
    /\ exc = NoExc
    /\ Len(frames) > 1
    /\ Self.name = fallback_subp(last'.kw.fallback)
    /\ Self.vars[fallback_var(last'.kw.fallback)] = NoDep

\* The outcome of a call for a variable the subproject does not define: an
\* exception for a required call, a dependency that is not found for an
\* optional one; the subproject is configured afterwards, and neither the
\* cache nor the override tables change.
MissingVariableOutcome ==
    /\ IF last'.kw.required = "true"
       THEN last'.res = "raise" /\ exc' # NoExc /\ exc'.kind = "DependencyException"
       ELSE last'.res = "ret" /\ exc' = NoExc /\ last'.dep = NotFoundDependency
    /\ fallback_subp(last'.kw.fallback) \in DOMAIN subprojects'
    /\ subprojects'[fallback_subp(last'.kw.fallback)].found
    /\ deps' = deps
    /\ dependency_overrides' = dependency_overrides

\* C30: a dependency() call that takes its dependency from a configured
\* fallback subproject by a variable the subproject does not define raises
\* an exception when required and returns a dependency that is not found
\* when optional; the subproject stays configured and no entry of the cache
\* or of the override tables is written.
C30_MissingFallbackVariable ==
    [][/\ MissingVariableOfResolved =>
              (MissingVariableOutcome /\ subprojects' = subprojects)
       /\ MissingVariableOfEvaluated => MissingVariableOutcome]_vars

\* An optional dependency() call got the not-found dependency from fallback
\* subproject A, configured before the call, which defines no variable v.
C30_Witness ==
    /\ last.op = "dependency"
    /\ ~last.entered
    /\ last.kw.fallback = <<"A", "v">>
    /\ last.kw.required = "false"
    /\ last.res = "ret"
    /\ last.dep = NotFoundDependency
    /\ "A" \in DOMAIN subprojects
    /\ subprojects["A"].found
    /\ subprojects["A"].vars["v"] = NoDep
    /\ subprojects["A"].serial < last.seq
    /\ \A m \in Machines : dependency_overrides[m] = EmptyDict
    /\ \A m \in Machines : deps[m] = EmptyDict

\* A required dependency() call that evaluated fallback subproject A, which
\* defines no variable v, raised the exception; A stays configured.
C30_WitnessRequired ==
    /\ last.op = "dependency"
    /\ last.entered
    /\ last.kw.required = "true"
    /\ last.res = "raise"
    /\ "A" \in DOMAIN subprojects
    /\ subprojects["A"].found
    /\ subprojects["A"].vars["v"] = NoDep

\* ------------------------------------------------- subproject name claims

\* Names do_subproject rejects: empty, with a leading period, with a '..'
\* segment, absolute.
BadSubNames == {"", ".hidden", "../up", "a/../b", "/abs"}

\* Keyword arguments of dependency() calls whose fallback names a rejected
\* subproject.
BadFallbackKwargs ==
    [required : {"true", "false"}, version : {<<>>}, native : {"host"},
     modules : {""}, fallback : {<<".hidden", "v">>, <<"", "v">>},
     allow_fallback : {"none"}]

\* A run of subproject() calls under valid and rejected names.
NextName ==
    \/ \E s \in {"A"} \cup BadSubNames, req \in ReqKinds :
           Subproject(s, req, <<>>, TRUE, "1.2.0")
    \/ \E kw \in BadFallbackKwargs : Dependency("z", kw, <<>>, "none", TRUE, "1.2.0")
    \/ Raise("InterpreterException")
    \/ Finish
    \/ Unwind

SpecName == Init /\ [][NextName]_vars

Warning ==
    /\ Running
    /\ steps' = steps + 1
    /\ log_warnings_counter' = log_warnings_counter + 1
    /\ frames' = [frames EXCEPT ![Len(frames)].own_warnings = @ + 1]
    /\ last' = Done("warning", "", "ret", NoDep, NoHandle, NoExc, NoKw, FALSE, FALSE,
                    steps + 1)
    /\ UNCHANGED <<subprojects, dependency_overrides, deps, wrap_mode,
                   force_fallback_for, global_args, project_args, target_guids, exc,
                   phase, evals, probes, provided, io>>

\* A run of projects that emit warnings, enter subprojects and fail.
NextWarn ==
    \/ Warning
    \/ \E s \in SubNames, req \in ReqKinds, resolves \in BOOLEAN :
           Subproject(s, req, <<>>, resolves, "1.2.0")
    \/ Raise("InterpreterException")
    \/ Finish
    \/ Unwind

SpecWarn == Init /\ [][NextWarn]_vars

\* A subproject() call returns a handle in this step.
SubprojectReturns == Completes("subproject") /\ last'.res = "ret"

\* The value of the warning counter when the subproject() call that returns
\* in this step was made: the present value for a call that returns at once,
\* the value the invoker saved for a call that evaluated the subproject.
CounterBeforeCall ==
    IF last'.entered THEN Self.current_warnings_counter ELSE log_warnings_counter

\* C32 (as stated): when a subproject() call returns a handle, found or not,
\* the warning counter has the value it had when the call was made, and a
\* found handle of a subproject evaluated by the call records the number of
\* warnings the build files of that subproject emitted.
C32_WarningCounterRestored ==
    [][SubprojectReturns
          => /\ log_warnings_counter' = CounterBeforeCall
             /\ (last'.entered /\ last'.handle.found)
                    => last'.handle.warnings = Self.own_warnings]_vars

\* The part of C32 the code keeps: a call that returns without a nested
\* evaluation leaves the counter alone, and a call whose nested evaluation
\* ran to its end restores the counter.
C32_CounterRestoredAfterCompleteRun ==
    [][(SubprojectReturns /\ (~last'.entered \/ last'.handle.found))
          => log_warnings_counter' = CounterBeforeCall]_vars

\* ------------------------------------------------ merged registry claims

\* The targets the build files of subproject s registered, taken from the
\* interpreter its handle holds.
TargetsOf(s) ==
    {id \in DOMAIN subprojects[s].targets : subprojects[s].targets[id].subproject = s}

\* The top-level project is evaluating its build file or has ended it, and
\* nothing was raised: the run ends without a fatal error when the build
\* file ends here.
RootCanComplete == Len(frames) = 1 /\ exc = NoExc /\ phase \in {"run", "done"}

\* C33 (as stated): whenever the run can end without a fatal error, the
\* registry of the top-level project holds every target registered by a
\* subproject whose handle in the subproject cache is found.
C33_ReadySubprojectTargetsInRoot ==
    RootCanComplete =>
        \A s \in DOMAIN subprojects :
            subprojects[s].found =>
                \A id \in TargetsOf(s) :
                    /\ id \in DOMAIN frames[1].targets
                    /\ frames[1].targets[id] = subprojects[s].targets[id]

\* The part of C33 the code keeps: a call that evaluated a subproject and
\* returns its found handle leaves the invoker's registry with every target
\* of the registry of that subproject.
C33_ReturnedHandleIsMerged ==
    [][(Completes("subproject") /\ last'.entered /\ last'.res = "ret"
        /\ last'.handle.found)
          => \A id \in DOMAIN last'.handle.targets :
                 /\ id \in DOMAIN frames'[Len(frames')].targets
                 /\ frames'[Len(frames')].targets[id] = last'.handle.targets[id]]_vars

\* test(name, ...): add_test appends the test to the test list of the build.
Test(name) ==
    /\ Running
    /\ steps' = steps + 1
    /\ frames' = [frames EXCEPT ![Len(frames)].tests =
                      Append(@, [name |-> name, subproject |-> Self.name,
                                 serial |-> steps + 1])]
    /\ last' = Done("test", name, "ret", NoDep, NoHandle, NoExc, NoKw, FALSE, FALSE,
                    steps + 1)
    /\ UNCHANGED <<subprojects, dependency_overrides, deps, wrap_mode,
                   log_warnings_counter, force_fallback_for, global_args, project_args,
                   target_guids, exc, phase, evals, probes, provided, io>>

\* A run of projects that register targets and tests, record build
\* definition files and enter subprojects that may fail: by an error, by a
\* version they do not have, by a resolver that cannot find them, by a
\* disabled feature.
NextMerge ==
    \/ \E req \in ReqKinds, wanted \in {<<>>, <<">=1.3">>}, resolves \in BOOLEAN :
           Subproject("A", req, wanted, resolves, "1.2.0")
    \/ AddTarget("t", "exe")
    \/ Test("t")
    \/ RunCommand(<<"x.in">>)
    \/ Raise("InterpreterException")
    \/ Finish
    \/ Unwind

SpecMerge == Init /\ [][NextMerge]_vars

\* A subproject() call returns a handle that is not found in this step.
ReturnsDisabled ==
    Completes("subproject") /\ last'.res = "ret" /\ ~last'.handle.found

\* The interpreter that made the call which completes in this step, as it
\* was when the nested evaluation ended (or, for a call without a nested
\* evaluation, when the call was made).
Invoker == IF last'.entered THEN frames[Len(frames) - 1] ELSE Self

\* C34: when a subproject() call returns a handle that is not found (disabled
\* feature, resolver failure, failed nested evaluation), the registry, the
\* test list and the list of build definition files of the invoking
\* interpreter are what they were before the call; an interpreter that waits
\* for a nested evaluation changes nothing in the meantime.
C34_DisabledMergesNothing ==
    [][/\ ReturnsDisabled =>
              /\ frames'[Len(frames')].targets = Invoker.targets
              /\ frames'[Len(frames')].tests = Invoker.tests
              /\ frames'[Len(frames')].build_def_files = Invoker.build_def_files
       /\ \A i \in 1..Len(frames) :
              (i < Len(frames) /\ i < Len(frames')) => frames'[i] = frames[i]
       /\ Len(frames') > Len(frames) =>
              /\ frames'[Len(frames)].targets = Self.targets
              /\ frames'[Len(frames)].tests = Self.tests
              /\ frames'[Len(frames)].build_def_files = Self.build_def_files]_vars

\* An optional subproject() call of the top-level project returned a handle
\* that records the failure of the nested evaluation, which had registered a
\* target: the token table knows the target, the registry of the top-level
\* project is empty.
C34_Witness ==
    /\ last.op = "subproject"
    /\ last.entered
    /\ last.res = "ret"
    /\ ~last.handle.found
    /\ last.handle.exception.kind = "InterpreterException"
    /\ Len(frames) = 1
    /\ DOMAIN target_guids # {}
    /\ DOMAIN Self.targets = {}
    /\ Self.tests = <<>>

\* ------------------------------------------- cached disabled subprojects

\* The subproject cache holds a handle for 's' that is not found.
CachedDisabled(s) == s \in DOMAIN subprojects /\ ~subprojects[s].found

\* The step starts no evaluation and leaves the cache as it is.
NothingEvaluated ==
    /\ Len(frames') = Len(frames)
    /\ evals' = evals
    /\ subprojects' = subprojects

\* The call of the step ended with the fatal error 'kind'.
FailsWith(kind) ==
    /\ last'.res = "raise"
    /\ last'.exc.kind = kind
    /\ exc' # NoExc

ProgNames == {"x", "y"}

\* The argument lists of find_program calls.
ProgArgs == {<<"x">>, <<"y">>, <<"y", "x">>}

\* An executable or script a build file hands to override_find_program.
OverrideProgram(version, n) ==
    [found |-> TRUE, name |-> "override", version |-> version, serial |-> n]

\* The program the search of the machine file and of the system finds, in
\* version 'found' ("none" when it finds nothing).
SystemProgram(found) ==
    IF found = "none" THEN NoProgram
    ELSE [found |-> TRUE, name |-> "system", version |-> found, serial |-> 0]

\* find_program(args, required: required, version: wanted), when the wrap
\* resolver names 'provider' as the subproject that provides the program and
\* the system search finds version 'found'.
FindProgram(args, required, wanted, provider, found, resolves) ==
    /\ Running
    /\ \E l \in {program_lookup(Self, wrap_mode, args, required, provider,
                                SystemProgram(found))} :
       LET n == steps + 1
           req == IF required THEN "true" ELSE "false"
           kw == [NoKw EXCEPT !.required = req, !.version = wanted]
       IN  /\ steps' = n
           /\ IF l.tag = "prog"
              THEN \E g \in {find_program_impl(Self, args, l.prog, required, wanted)} :
                   /\ frames' = [frames EXCEPT ![Len(frames)] = WithProgramCall(g, args, n)]
                   /\ exc' = g.exc
                   /\ last' = Done("find_program", args[1], g.tag, NoDep, NoHandle, g.exc,
                                   kw, FALSE, FALSE, n)
                   /\ UNCHANGED <<subprojects, evals, log_warnings_counter>>
              ELSE \E r \in {do_subproject(Self, subprojects, l.fallback, req, resolves, n)} :
                   /\ subprojects' = r.subprojects
                   /\ IF r.tag = "enter"
                      THEN /\ frames' = EnterFrames(l.fallback, "1.2.0",
                                            [kind |-> "program", required |-> required,
                                             version |-> wanted, dname |-> "", kw |-> kw,
                                             probed |-> FALSE, args |-> args,
                                     not_found_message |-> ""])
                           /\ evals' = [evals EXCEPT ![l.fallback] = @ + 1]
                           /\ log_warnings_counter' = 0
                           /\ UNCHANGED <<exc, last>>
                      ELSE \E g \in {find_program_fallback(Self, r, args, required, wanted)} :
                           /\ frames' = [frames EXCEPT
                                             ![Len(frames)] = WithProgramCall(g, args, n)]
                           /\ exc' = g.exc
                           /\ last' = Done("find_program", args[1], g.tag, NoDep, r.handle,
                                           g.exc, kw, FALSE, FALSE, n)
                           /\ UNCHANGED <<evals, log_warnings_counter>>
    /\ UNCHANGED <<dependency_overrides, deps, wrap_mode, force_fallback_for, global_args,
                   project_args, target_guids, phase, probes, provided, io>>

\* meson.override_find_program(name, exe)
OverrideFindProgram(name, version) ==
    /\ Running
    /\ \E r \in {add_find_program_override(Self, name, OverrideProgram(version, steps + 1))} :
           /\ steps' = steps + 1
           /\ frames' = [frames EXCEPT ![Len(frames)] = r.self]
           /\ exc' = r.exc
           /\ last' = Done("override_find_program", name,
                           IF r.exc = NoExc THEN "ret" ELSE "raise", NoDep, NoHandle, r.exc,
                           NoKw, FALSE, FALSE, steps + 1)
    /\ UNCHANGED <<subprojects, dependency_overrides, deps, wrap_mode, log_warnings_counter,
                   force_fallback_for, global_args, project_args, target_guids, phase, evals,
                   probes, provided, io>>

\* A first configuration under the wrap modes that allow a fallback.
InitProg ==
    \E wm \in {"default", "forcefallback"} :
        InitWith([m \in Machines |-> EmptyDict], NoIO, wm, {})

\* A run of projects that look programs up and override them; the wrap
\* resolver names subproject A as the provider of program x.
NextProg ==
    \/ \E args \in ProgArgs, required \in BOOLEAN, wanted \in {<<>>, <<">=1.3">>},
          found \in {"none", "1.2.0"} :
           FindProgram(args, required, wanted, IF args[1] = "x" THEN "A" ELSE "", found, TRUE)
    \/ \E name \in ProgNames, version \in {"1.2.0", "1.4.0"} :
           OverrideFindProgram(name, version)
    \/ Subproject("A", "false", <<>>, TRUE, "1.2.0")
    \/ Raise("InterpreterException")
    \/ Finish
    \/ Unwind

SpecProg == InitProg /\ [][NextProg]_vars

\* The step completes a find_program call; ProgramCall is its record.
FindProgramCompletes == Completes("find_program")

ProgramCall == frames'[Len(frames')].program

\* The interpreter that made the find_program call which completes in this
\* step, as it was when it made the call.
ProgramCaller == IF last'.entered THEN frames[Len(frames) - 1] ELSE Self

\* The names of the call that had an override when the call was made.
OverriddenArgs ==
    {i \in 1..Len(ProgramCall.args) :
         ProgramCall.args[i] \in DOMAIN ProgramCaller.find_overrides}

\* The step is an override_find_program(name, ...) that was accepted.
Overrides(name) ==
    /\ Completes("override_find_program")
    /\ last'.arg = name
    /\ last'.res = "ret"

\* No override of the build of a live interpreter changes or disappears.
OverridesKept ==
    \A i \in 1..Len(frames) :
        i <= Len(frames') =>
            \A name \in DOMAIN frames[i].find_overrides :
                /\ name \in DOMAIN frames'[i].find_overrides
                /\ frames'[i].find_overrides[name] = frames[i].find_overrides[name]

\* C36 (as stated): a program name is overridden only if it has no override
\* and no find_program call of the run has returned a program for it; a
\* find_program call that returns no program records nothing; an override
\* never changes, and every later find_program call that names it returns it.
C36_ProgramOverrideStable ==
    [][/\ \A name \in ProgNames :
              Overrides(name) =>
                  /\ name \notin DOMAIN Self.find_overrides
                  /\ name \notin Self.looked_up
       /\ (FindProgramCompletes /\ ~(ProgramCall.res = "ret" /\ ProgramCall.prog.found))
              => /\ frames'[Len(frames')].find_overrides = ProgramCaller.find_overrides
                 /\ frames'[Len(frames')].searched_programs = ProgramCaller.searched_programs
       /\ OverridesKept
       /\ FindProgramCompletes =>
              \A i \in OverriddenArgs :
                  /\ ProgramCall.res = "ret"
                  /\ ProgramCall.prog = ProgramCaller.find_overrides[ProgramCall.args[i]]]_vars

\* C36 (amended): override_find_program(name) is accepted exactly when the
\* build of the interpreter has no override for the name and has recorded no
\* lookup of it; a find_program call that returns no program and evaluates no
\* subproject leaves the build as it was; no override of a build changes;
\* and a find_program call that names an overridden program evaluates
\* nothing and answers from the override of the first such name: it returns
\* it when its version satisfies the call, and otherwise finds nothing (an
\* error when the call is required).
C36_ProgramOverridePerBuild ==
    [][/\ \A name \in ProgNames :
              /\ Overrides(name) =>
                     /\ name \notin DOMAIN Self.find_overrides
                     /\ name \notin Self.searched_programs
                     /\ name \in DOMAIN frames'[Len(frames')].find_overrides
              /\ (Completes("override_find_program") /\ last'.arg = name
                      /\ last'.res = "raise")
                     => /\ \/ name \in DOMAIN Self.find_overrides
                           \/ name \in Self.searched_programs
                        /\ frames'[Len(frames')].find_overrides = Self.find_overrides
       /\ (FindProgramCompletes /\ ~last'.entered
               /\ ~(ProgramCall.res = "ret" /\ ProgramCall.prog.found))
              => /\ frames'[Len(frames')].find_overrides = Self.find_overrides
                 /\ frames'[Len(frames')].searched_programs = Self.searched_programs
       /\ OverridesKept
       /\ (FindProgramCompletes /\ OverriddenArgs # {}) =>
              LET first == CHOOSE i \in OverriddenArgs : \A j \in OverriddenArgs : i <= j
                  exe == ProgramCaller.find_overrides[ProgramCall.args[first]]
              IN  /\ ~last'.entered
                  /\ evals' = evals
                  /\ IF version_compare_many(exe.version, last'.kw.version)
                     THEN /\ ProgramCall.res = "ret"
                          /\ ProgramCall.prog = exe
                          /\ Range(ProgramCall.args)
                                 \subseteq frames'[Len(frames')].searched_programs
                     ELSE /\ ~ProgramCall.prog.found
                          /\ ProgramCall.res = "raise" <=> last'.kw.required = "true"]_vars

\* The top-level project has looked up x, which the wrap resolver let
\* subproject A provide: A was evaluated, overrode x, and the call returned
\* the override merged into the build of the top-level project.
C36_Witness ==
    /\ Len(frames) = 1
    /\ last.op = "find_program"
    /\ last.entered
    /\ evals["A"] = 1
    /\ Self.program.res = "ret"
    /\ "x" \in DOMAIN Self.find_overrides
    /\ Self.program.prog = Self.find_overrides["x"]
    /\ "x" \in Self.searched_programs

\* ------------------------------------------------------ implicit overrides

\* C37: every entry of the override tables that dependency() recorded by
\* itself holds a found dependency under the identifier of a non-empty name:
\* no NotFound result and no anonymous dependency becomes an implicit
\* override.
C37_ImplicitOverridesAreFound ==
    \A m \in Machines :
        \A id \in DOMAIN dependency_overrides[m] :
            ~dependency_overrides[m][id].explicit
                => /\ dependency_overrides[m][id].dep.found
                   /\ id[1] # ""

\* An anonymous dependency() call has returned a found dependency, and the
\* override table of the host machine holds an implicit override: every
\* entry of the tables is one of z.
C37_Witness ==
    /\ last.op = "dependency"
    /\ last.arg = ""
    /\ last.res = "ret"
    /\ last.dep.found
    /\ \A m \in Machines : \A id \in DOMAIN dependency_overrides[m] : id[1] = "z"
    /\ \E id \in DOMAIN dependency_overrides["host"] :
           ~dependency_overrides["host"][id].explicit

\* ------------------------------------------------------ wrap mode nofallback

\* What the wrap resolver answers for a call without 'fallback' keyword in
\* the runs of SpecFb.
FbProvider(kw) == IF kw.fallback = <<>> THEN <<"A", "v">> ELSE <<>>

\* The wrap mode is nofallback and force_fallback_for names neither the
\* dependency nor the fallback subproject.
FallbackDisabled(name) ==
    /\ wrap_mode = "nofallback"
    /\ name \notin force_fallback_for
    /\ "A" \notin force_fallback_for

\* C38 (as stated): under wrap mode nofallback, with neither the dependency
\* nor the fallback subproject in force_fallback_for, a dependency() call
\* starts no evaluation of a subproject; if the probe finds nothing, a
\* required call fails and an optional call returns NotFound.
C38_NoFallbackNeverFallsBack ==
    [][\A name \in DepNames, kw \in FbKwargs, found \in ProbeFinds :
           (FallbackDisabled(name)
                /\ Dependency(name, kw, FbProvider(kw), found, TRUE, "1.2.0"))
               => /\ Len(frames') = Len(frames)
                  /\ evals' = evals
                  /\ found = "none" =>
                         IF kw.required = "true"
                         THEN last'.res = "raise"
                         ELSE last'.res = "ret" /\ last'.dep = NotFoundDependency]_vars

\* C38 (amended): under wrap mode nofallback, with neither the dependency
\* nor the fallback subproject in force_fallback_for, a dependency() call
\* starts no evaluation of a subproject; if the probe finds nothing, no
\* dependency is cached or overridden for the identifier and the fallback
\* subproject has not been configured already, a required call fails and an
\* optional call returns NotFound.
C38_NoFallbackUnlessConfigured ==
    [][\A name \in DepNames, kw \in FbKwargs, found \in ProbeFinds :
           (FallbackDisabled(name)
                /\ Dependency(name, kw, FbProvider(kw), found, TRUE, "1.2.0"))
               => /\ Len(frames') = Len(frames)
                  /\ evals' = evals
                  /\ (/\ found = "none"
                      /\ find_cached_dep(dependency_overrides, deps, name, kw) = NoDep
                      /\ ~get_subproject(subprojects, "A")) =>
                         IF kw.required = "true"
                         THEN last'.res = "raise"
                         ELSE last'.res = "ret" /\ last'.dep = NotFoundDependency]_vars

\* Under wrap mode nofallback a required dependency() call with a fallback
\* has probed, found nothing and failed because fallback is disabled: the
\* fallback subproject was never evaluated.
C38_Witness ==
    /\ wrap_mode = "nofallback"
    /\ force_fallback_for = {}
    /\ last.op = "dependency"
    /\ last.arg = "z"
    /\ last.probed
    /\ last.res = "raise"
    /\ last.exc.msg = "not found and fallback is disabled"
    /\ evals["A"] = 0

\* ------------------------------------------------------ not_found_message

\* Keyword arguments of the dependency() calls of these runs.
MsgKwargs ==
    [required : ReqKinds, version : {<<>>}, native : {"host"},
     modules : {""}, fallback : {<<>>, <<"A", "v">>}, allow_fallback : {"none"}]

\* A run of dependency() calls with and without a not_found_message, with
\* and without a fallback subproject, and of the statements of the fallback
\* subproject.
NextMsg ==
    \/ \E name \in DepNames, kw \in MsgKwargs, found \in ProbeFinds,
          not_found_message \in {"", "missing"} :
           FuncDependency(name, kw, <<>>, found, TRUE, "1.2.0", not_found_message)
    \/ Assign("v", DeclaredDep(Self.name, "1.2.0", steps + 1))
    \/ Raise("InterpreterException")
    \/ Finish
    \/ Unwind

SpecMsg == Init /\ [][NextMsg]_vars

\* The interpreter that made the dependency() call which completes in this
\* step, as it was when it made the call.
DependencyCaller == IF last'.entered THEN frames[Len(frames) - 1] ELSE Self

\* The number of messages the dependency() call that completes in this step
\* has logged.
MessagesLogged == frames'[Len(frames')].messages - DependencyCaller.messages

\* C39 (as stated): a dependency() call that was given a not_found_message
\* logs it exactly once when resolution raises or returns a dependency that
\* is not found, and not at all when the dependency is found.
C39_NotFoundMessageOnce ==
    [][(/\ Completes("dependency")
        /\ frames'[Len(frames')].dependency_call.not_found_message # "")
           => MessagesLogged = IF last'.res = "raise" \/ ~last'.dep.found THEN 1 ELSE 0]_vars

\* What holds of the messages: a call without not_found_message and a call
\* that returns a found dependency log nothing, a call whose resolution
\* raises logs the message once.
C39_MessageOnRaiseOnce ==
    [][Completes("dependency")
           => /\ frames'[Len(frames')].dependency_call.not_found_message = ""
                     => MessagesLogged = 0
              /\ (last'.res = "ret" /\ last'.dep.found) => MessagesLogged = 0
              /\ (/\ frames'[Len(frames')].dependency_call.not_found_message # ""
                  /\ last'.res = "raise") => MessagesLogged = 1]_vars

\* ------------------------------------------------------------- rust.test

\* Longest 'args' list of a rust.test() call.
MaxArgsLen == 3

\* Arguments the build files hand to rust.test(..., args: [...]).
RustArgs == {"--test", "--format", "--format=json", "json", "-q"}

\* a.startswith('--format=')
StartsWithFormatEq(a) == a \in {"--format=json"}

\* list.index(x): the position of the first x in the list.
index(seq, x) == CHOOSE i \in 1..Len(seq) : seq[i] = x /\ \A j \in 1..(i - 1) : seq[j] # x

\* del list[i]
del(seq, i) == SubSeq(seq, 1, i - 1) \o SubSeq(seq, i + 1, Len(seq))

\* RustModule.test: the removal of '--test'.
remove_test(extra_args) ==
    IF "--test" \in Range(extra_args)
    THEN del(extra_args, index(extra_args, "--test"))
    ELSE extra_args

\* RustModule.test: the loop that deletes the first '--format=...' argument.
remove_format_eq(extra_args) ==
    LET hits == {i \in 1..Len(extra_args) : StartsWithFormatEq(extra_args[i])}
    IN  IF hits = {} THEN extra_args
        ELSE del(extra_args, CHOOSE i \in hits : \A j \in hits : i <= j)

\* RustModule.test: kwargs['args'] of the generated test for the 'args' of
\* the call, or the IndexError of 'del extra_args[i + 1]'.
rust_test_args(args) ==
    LET a1 == remove_test(args)
        i == index(a1, "--format")
    IN  IF "--format" \in Range(a1) /\ i + 1 > Len(a1)
        THEN [res |-> "raise", exc |-> "IndexError", out |-> <<>>]
        ELSE [res |-> "ret", exc |-> "",
              out |-> remove_format_eq(IF "--format" \in Range(a1)
                                       THEN del(del(a1, i + 1), i)
                                       ELSE a1)
                          \o <<"--test", "--format", "pretty">>]

\* The calls of rust.test().
RustInputs ==
    {[op |-> "rust_test", args |-> a, done |-> FALSE, res |-> "", exc |-> "",
      out |-> <<>>] : a \in SeqsUpTo(RustArgs, MaxArgsLen)}

InitRust == \E in \in RustInputs : InitRun([m \in Machines |-> EmptyDict], in)

\* rust.test(name, target, args: io.args)
RustTest ==
    /\ io.op = "rust_test"
    /\ ~io.done
    /\ \E r \in {rust_test_args(io.args)} :
           io' = [io EXCEPT !.done = TRUE, !.res = r.res, !.exc = r.exc, !.out = r.out]
    /\ UNCHANGED <<frames, subprojects, dependency_overrides, deps, wrap_mode,
                   log_warnings_counter, force_fallback_for, global_args, project_args,
                   target_guids, exc, phase, last, evals, probes, provided, steps>>

NextRust == RustTest

SpecRust == InitRust /\ [][NextRust]_vars

\* The list without any '--test', any '--format' with the argument that
\* follows it, and any '--format=...'.
RECURSIVE Stripped(_)
Stripped(args) ==
    IF args = <<>> THEN <<>>
    ELSE IF Head(args) = "--test" THEN Stripped(Tail(args))
    ELSE IF Head(args) = "--format"
    THEN IF Len(args) >= 2 THEN Stripped(Tail(Tail(args))) ELSE <<>>
    ELSE IF StartsWithFormatEq(Head(args)) THEN Stripped(Tail(args))
    ELSE <<Head(args)>> \o Stripped(Tail(args))

\* C40 (as stated): rust.test() never fails on its 'args', and the generated
\* test gets the 'args' of the call without any '--test', any '--format X'
\* and any '--format=X', followed by '--test', '--format', 'pretty'.
C40_RustTestArgs ==
    (io.op = "rust_test" /\ io.done)
        => /\ io.res = "ret"
           /\ io.out = Stripped(io.args) \o <<"--test", "--format", "pretty">>

\* What holds of rust.test(): a call that returns passes a list that ends in
\* '--test', '--format', 'pretty', and 'args' without any of the three kinds
\* of argument are passed as they are.
C40_PlainArgsPassedOn ==
    (io.op = "rust_test" /\ io.done)
        => /\ io.res = "ret" =>
                  /\ Len(io.out) >= 3
                  /\ SubSeq(io.out, Len(io.out) - 2, Len(io.out))
                         = <<"--test", "--format", "pretty">>
           /\ (\A i \in 1..Len(io.args) : io.args[i] \in {"json", "-q"})
                  => /\ io.res = "ret"
                     /\ io.out = io.args \o <<"--test", "--format", "pretty">>

====
